---- MODULE Spec2Model ----
(***************************************************************************)
(* Model of the differentiable rigid-body core: the Tensor autograd engine *)
(* (tensor.cpp), and Motor / Body::AddMotor (motor.h, body.h).             *)
(*                                                                         *)
(* Tensors live on a heap indexed by address; child lists and closures     *)
(* hold addresses, as the C++ code holds raw Tensor pointers.              *)
(* float values are modelled as exact rationals extended with +inf, -inf   *)
(* and NaN (rounding and signed zero are not modelled).                    *)
(***************************************************************************)
EXTENDS Integers, Sequences, FiniteSets, TLC

VARIABLES heap, status, last, log, nBackward, nWrites, hist, single, motors, bodies,
          engine, phases, manager, optim, nCalls, walk

vars == <<heap, status, last, log, nBackward, nWrites, hist, single, motors, bodies,
          engine, phases, manager, optim, nCalls, walk>>

tensorVars == <<heap, status, last, log, nBackward, nWrites, hist, single>>

motorVars == <<motors, bodies>>

worldVars == <<engine, phases, manager, optim, nCalls, walk>>

(***************************************************************************)
(* Bounds of the model.                                                    *)
(***************************************************************************)
MaxTensors == 3

MaxBackward == 2

MaxWrites == 1

MaxMotors == 2

MaxBodies == 1

MaxBodyCalls == 2

MaxEngineCalls == 4

MaxManagerCalls == 4

\* calls made on an optimizer and its parameters
MaxOptimCalls == 3

\* calls made on a pair of optimizers and their parameters
MaxPairCalls == 3

(***************************************************************************)
(* float arithmetic: n/d in lowest terms, d = 0 encodes inf (n = 1),       *)
(* -inf (n = -1) and NaN (n = 0).  Each operation takes the values of its  *)
(* operands once (the singleton-set binders), so that an expression is     *)
(* evaluated in time linear in its size.                                   *)
(***************************************************************************)
Abs(x) == IF x < 0 THEN -x ELSE x

Sgn(x) == IF x < 0 THEN -1 ELSE IF x > 0 THEN 1 ELSE 0

RECURSIVE GCD(_, _)
GCD(a, b) == IF b = 0 THEN a ELSE CHOOSE r \in {GCD(b, m) : m \in {a % b}} : TRUE

RNorm(n, d) ==
    IF d = 0 THEN [n |-> Sgn(n), d |-> 0]
    ELSE LET s == IF d < 0 THEN -1 ELSE 1
         IN  CHOOSE r \in {[n |-> (s * n) \div g, d |-> (s * d) \div g] :
                             g \in {GCD(Abs(n), Abs(d))}} : TRUE

R(i) == [n |-> i, d |-> 1]

RNaN == [n |-> 0, d |-> 0]

RAdd(a, b) ==
    CHOOSE r \in
        {IF x.d = 0 /\ y.d = 0 THEN (IF x.n = y.n THEN x ELSE RNaN)
         ELSE IF x.d = 0 \/ y.d = 0 THEN RNorm(x.n * y.d + y.n * x.d, 0)
         ELSE IF x.d = y.d THEN RNorm(x.n + y.n, x.d)
         ELSE CHOOSE q \in {RNorm(x.n * (y.d \div g) + y.n * (x.d \div g),
                                  x.d * (y.d \div g)) : g \in {GCD(x.d, y.d)}} : TRUE :
         x \in {a}, y \in {b}} : TRUE

RNeg(a) == CHOOSE r \in {[n |-> -x.n, d |-> x.d] : x \in {a}} : TRUE

RSub(a, b) == RAdd(a, RNeg(b))

RMul(a, b) == CHOOSE r \in {RNorm(x.n * y.n, x.d * y.d) : x \in {a}, y \in {b}} : TRUE

RDiv(a, b) ==
    CHOOSE r \in {RNorm(x.n * y.d * (IF y.n < 0 THEN -1 ELSE 1), x.d * Abs(y.n)) :
                    x \in {a}, y \in {b}} : TRUE

(***************************************************************************)
(* Eigen::MatrixXf: rows, cols and the coefficients in column-major order. *)
(* A default-constructed matrix is 0x0.                                    *)
(***************************************************************************)
Mat(r, c, v) == [rows |-> r, cols |-> c, v |-> v]

EmptyMat == Mat(0, 0, <<>>)

Size(m) == m.rows * m.cols

SameShape(m1, m2) == m1.rows = m2.rows /\ m1.cols = m2.cols

Const(r, c, x) == Mat(r, c, [k \in 1..(r * c) |-> x])

Zeros(r, c) == Const(r, c, R(0))

Ones(r, c) == Const(r, c, R(1))

\* coefficient (i, j), 0-based as in the C++ code
At(m, i, j) == m.v[j * m.rows + i + 1]

MAdd(m1, m2) == Mat(m1.rows, m1.cols, [k \in 1..Size(m1) |-> RAdd(m1.v[k], m2.v[k])])

MSub(m1, m2) == Mat(m1.rows, m1.cols, [k \in 1..Size(m1) |-> RSub(m1.v[k], m2.v[k])])

MHad(m1, m2) == Mat(m1.rows, m1.cols, [k \in 1..Size(m1) |-> RMul(m1.v[k], m2.v[k])])

MQuot(m1, m2) == Mat(m1.rows, m1.cols, [k \in 1..Size(m1) |-> RDiv(m1.v[k], m2.v[k])])

MScale(m, x) == Mat(m.rows, m.cols, [k \in 1..Size(m) |-> RMul(m.v[k], x)])

MDivS(m, x) == Mat(m.rows, m.cols, [k \in 1..Size(m) |-> RDiv(m.v[k], x)])

MAddS(m, x) == Mat(m.rows, m.cols, [k \in 1..Size(m) |-> RAdd(m.v[k], x)])

RECURSIVE SumSeq(_, _)
SumSeq(s, k) == IF k = 0 THEN R(0) ELSE RAdd(SumSeq(s, k - 1), s[k])

MSum(m) == SumSeq(m.v, Size(m))

MTranspose(m) ==
    Mat(m.cols, m.rows,
        [k \in 1..Size(m) |-> At(m, (k - 1) \div m.cols, (k - 1) % m.cols)])

RECURSIVE DotFrom(_, _, _, _, _)
DotFrom(m1, m2, i, j, k) ==
    IF k = 0 THEN R(0)
    ELSE RAdd(DotFrom(m1, m2, i, j, k - 1), RMul(At(m1, i, k - 1), At(m2, k - 1, j)))

\* matrix product (m1.cols = m2.rows)
MProd(m1, m2) ==
    Mat(m1.rows, m2.cols,
        [k \in 1..(m1.rows * m2.cols) |->
            DotFrom(m1, m2, (k - 1) % m1.rows, (k - 1) \div m1.rows, m1.cols)])

(***************************************************************************)
(* Tensor: m_Data, m_Grad, m_bRequiresGrad, m_Children, m_BackwardFn.      *)
(* The closure is a record of its kind and its captures (operand           *)
(* addresses, scalar, index, broadcast flag).                              *)
(***************************************************************************)
NoFn == [kind |-> "none", a |-> 0, b |-> 0, k |-> R(0), idx |-> 0, bc |-> FALSE]

Fn(kind, a, b) == [kind |-> kind, a |-> a, b |-> b, k |-> R(0), idx |-> 0, bc |-> FALSE]

\* Tensor::SetRequiresGrad
SetRequiresGradT(t, requiresGrad) ==
    [t EXCEPT !.rg = requiresGrad,
              !.grad = IF requiresGrad /\ Size(t.grad) = 0
                       THEN Zeros(t.data.rows, t.data.cols) ELSE t.grad]

\* Tensor::Tensor(int rows, int cols, bool requiresGrad)
NewTensorT(rows, cols, requiresGrad) ==
    SetRequiresGradT([data |-> Zeros(rows, cols), grad |-> EmptyMat, rg |-> FALSE,
                      children |-> <<>>, fn |-> NoFn], requiresGrad)

\* Tensor::Tensor(std::vector<float> dataList, bool requiresGrad)
NewVectorT(dataList, requiresGrad) ==
    SetRequiresGradT([data |-> Mat(Len(dataList), 1, dataList), grad |-> EmptyMat,
                      rg |-> FALSE, children |-> <<>>, fn |-> NoFn], requiresGrad)

\* Tensor::ZeroGrad
ZeroGradT(t) ==
    IF Size(t.grad) > 0 THEN [t EXCEPT !.grad = Zeros(t.grad.rows, t.grad.cols)] ELSE t

\* the result of an operation: "Tensor result(r, c, false)" with its data,
\* then, when some operand requires grad, SetRequiresGrad(true), the child
\* list and the closure
OpResult(data, requiresGrad, children, fn) ==
    IF requiresGrad
    THEN [SetRequiresGradT([data |-> data, grad |-> EmptyMat, rg |-> FALSE,
                            children |-> <<>>, fn |-> NoFn], TRUE)
             EXCEPT !.children = children, !.fn = fn]
    ELSE [data |-> data, grad |-> EmptyMat, rg |-> FALSE, children |-> <<>>, fn |-> NoFn]

Ok(t) == [outcome |-> "ok", t |-> <<t>>]

\* an exception propagates to the caller; no tensor is returned
Throw == [outcome |-> "throw", t |-> <<>>]

\* a message on stderr and a placeholder tensor returned to the caller
SoftError(t) == [outcome |-> "soft_error", t |-> <<t>>]

\* an Eigen size assertion fails: abort (assertions on) or undefined (NDEBUG)
EigenMismatch == [outcome |-> "eigen_mismatch", t |-> <<>>]

\* Tensor::operator+
OpAdd(h, a, b) ==
    IF ~SameShape(h[a].data, h[b].data) THEN EigenMismatch
    ELSE Ok(OpResult(MAdd(h[a].data, h[b].data), h[a].rg \/ h[b].rg,
                     <<a, b>>, Fn("add", a, b)))

\* Tensor::operator-
OpSub(h, a, b) ==
    IF ~SameShape(h[a].data, h[b].data) THEN EigenMismatch
    ELSE Ok(OpResult(MSub(h[a].data, h[b].data), h[a].rg \/ h[b].rg,
                     <<a, b>>, Fn("sub", a, b)))

\* Tensor::operator*(const Tensor&)
OpMul(h, a, b) ==
    LET bScalarBroadcast == h[b].data.rows = 1 /\ h[b].data.cols = 1
    IN  IF ~bScalarBroadcast /\ ~SameShape(h[a].data, h[b].data) THEN Throw
        ELSE Ok(OpResult(IF bScalarBroadcast
                         THEN MScale(h[a].data, At(h[b].data, 0, 0))
                         ELSE MHad(h[a].data, h[b].data),
                         h[a].rg \/ h[b].rg, <<a, b>>,
                         [Fn("mul", a, b) EXCEPT !.bc = bScalarBroadcast]))

\* Tensor::operator/
OpDiv(h, a, b) ==
    LET bScalarBroadcast == h[b].data.rows = 1 /\ h[b].data.cols = 1
    IN  IF ~bScalarBroadcast /\ ~SameShape(h[a].data, h[b].data) THEN Throw
        ELSE Ok(OpResult(IF bScalarBroadcast
                         THEN MDivS(h[a].data, At(h[b].data, 0, 0))
                         ELSE MQuot(h[a].data, h[b].data),
                         h[a].rg \/ h[b].rg, <<a, b>>,
                         [Fn("div", a, b) EXCEPT !.bc = bScalarBroadcast]))

\* Tensor::operator*(float)
OpScale(h, a, scalar) ==
    Ok(OpResult(MScale(h[a].data, scalar), h[a].rg, <<a>>,
                [Fn("scale", a, 0) EXCEPT !.k = scalar]))

\* Tensor::Matmul
OpMatmul(h, a, b) ==
    IF h[a].data.cols # h[b].data.rows THEN Throw
    ELSE Ok(OpResult(MProd(h[a].data, h[b].data), h[a].rg \/ h[b].rg,
                     (IF h[a].rg THEN <<a>> ELSE <<>>) \o (IF h[b].rg THEN <<b>> ELSE <<>>),
                     Fn("matmul", a, b)))

\* Tensor::Transpose
OpTranspose(h, a) ==
    Ok(OpResult(MTranspose(h[a].data), h[a].rg, <<a>>, Fn("transpose", a, 0)))

\* Tensor::Sum()
OpSum(h, a) ==
    Ok(OpResult(Mat(1, 1, <<MSum(h[a].data)>>), h[a].rg, <<a>>, Fn("sum", a, 0)))

\* Tensor::Mean()
OpMean(h, a) ==
    Ok(OpResult(Mat(1, 1, <<RDiv(MSum(h[a].data), R(Size(h[a].data)))>>),
                h[a].rg, <<a>>, Fn("mean", a, 0)))

\* Tensor::Select
OpSelect(h, a, idx) ==
    IF idx < 0 \/ idx >= Size(h[a].data)
    THEN SoftError(NewTensorT(1, 1, FALSE))
    ELSE Ok(OpResult(Mat(1, 1, <<h[a].data.v[idx + 1]>>), h[a].rg, <<a>>,
                     [Fn("select", a, 0) EXCEPT !.idx = idx]))

\* Tensor::Reshape
OpReshape(h, a, r, c) ==
    IF r * c # Size(h[a].data)
    THEN SoftError(NewTensorT(1, 1, FALSE))
    ELSE Ok(OpResult(Mat(r, c, h[a].data.v), h[a].rg, <<a>>, Fn("reshape", a, 0)))

(***************************************************************************)
(* Backward closures.  FnSound(h, s) holds when the matrices the closure   *)
(* of node s combines have the sizes Eigen requires; ApplyFn(h, s, junk)   *)
(* is the heap after the closure has run.                                  *)
(***************************************************************************)
AddToGrad(h, i, m) == [h EXCEPT ![i].grad = MAdd(@, m)]

SubFromGrad(h, i, m) == [h EXCEPT ![i].grad = MSub(@, m)]

AddToGradAt(h, i, k, x) == [h EXCEPT ![i].grad.v[k] = RAdd(@, x)]

FnSound(h, s) ==
    LET f == h[s].fn
        g == h[s].grad
    IN  CASE f.kind \in {"add", "sub"} ->
                /\ h[f.a].rg => SameShape(h[f.a].grad, g)
                /\ h[f.b].rg => SameShape(h[f.b].grad, g)
          [] f.kind \in {"mul", "div"} ->
                /\ h[f.a].rg =>
                      /\ SameShape(h[f.a].grad, g)
                      /\ IF f.bc THEN Size(h[f.b].data) > 0 ELSE SameShape(g, h[f.b].data)
                /\ h[f.b].rg =>
                      /\ SameShape(g, h[f.a].data)
                      /\ IF f.bc THEN Size(h[f.b].grad) > 0 /\ Size(h[f.b].data) > 0
                                 ELSE SameShape(h[f.b].grad, g) /\ SameShape(g, h[f.b].data)
          [] f.kind = "scale" -> h[f.a].rg => SameShape(h[f.a].grad, g)
          [] f.kind = "matmul" ->
                /\ h[f.a].rg =>
                      /\ g.cols = h[f.b].data.cols
                      /\ h[f.a].grad.rows = g.rows /\ h[f.a].grad.cols = h[f.b].data.rows
                /\ h[f.b].rg =>
                      /\ h[f.a].data.rows = g.rows
                      /\ h[f.b].grad.rows = h[f.a].data.cols /\ h[f.b].grad.cols = g.cols
          [] f.kind = "transpose" ->
                h[f.a].rg => (h[f.a].grad.rows = g.cols /\ h[f.a].grad.cols = g.rows)
          [] f.kind = "sum" -> h[f.a].rg => Size(g) > 0
          [] f.kind = "mean" -> h[f.a].rg => SameShape(h[f.a].grad, g)
          [] f.kind = "select" -> h[f.a].rg => (Size(g) > 0 /\ f.idx < Size(h[f.a].grad))
          [] f.kind = "reshape" -> h[f.a].rg => Size(h[f.a].grad) = Size(g)
          [] OTHER -> TRUE

\* the lambda stored by operator+
FnAdd(h, s) ==
    LET f == h[s].fn
        h1 == IF h[f.a].rg THEN AddToGrad(h, f.a, h[s].grad) ELSE h
    IN  IF h1[f.b].rg THEN AddToGrad(h1, f.b, h1[s].grad) ELSE h1

\* the lambda stored by operator-
FnSub(h, s) ==
    LET f == h[s].fn
        h1 == IF h[f.a].rg THEN AddToGrad(h, f.a, h[s].grad) ELSE h
    IN  IF h1[f.b].rg THEN SubFromGrad(h1, f.b, h1[s].grad) ELSE h1

\* the lambda stored by operator*(const Tensor&)
FnMul(h, s) ==
    LET f == h[s].fn
        h1 == IF h[f.a].rg
              THEN AddToGrad(h, f.a,
                     IF f.bc THEN MScale(h[s].grad, At(h[f.b].data, 0, 0))
                             ELSE MHad(h[s].grad, h[f.b].data))
              ELSE h
    IN  IF h1[f.b].rg
        THEN IF f.bc
             THEN AddToGradAt(h1, f.b, 1, MSum(MHad(h1[s].grad, h1[f.a].data)))
             ELSE AddToGrad(h1, f.b, MHad(h1[s].grad, h1[f.a].data))
        ELSE h1

\* the lambda stored by operator/
FnDiv(h, s) ==
    LET f == h[s].fn
        h1 == IF h[f.a].rg
              THEN AddToGrad(h, f.a,
                     IF f.bc THEN MDivS(h[s].grad, At(h[f.b].data, 0, 0))
                             ELSE MQuot(h[s].grad, h[f.b].data))
              ELSE h
        sc == At(h1[f.b].data, 0, 0)
    IN  IF h1[f.b].rg
        THEN IF f.bc
             THEN AddToGradAt(h1, f.b, 1,
                    MSum(MScale(MHad(h1[s].grad, h1[f.a].data),
                                RDiv(R(-1), RMul(sc, sc)))))
             ELSE SubFromGrad(h1, f.b,
                    MQuot(MHad(h1[s].grad, h1[f.a].data),
                          MHad(h1[f.b].data, h1[f.b].data)))
        ELSE h1

\* the lambda stored by operator*(float)
FnScale(h, s) ==
    LET f == h[s].fn
    IN  IF h[f.a].rg THEN AddToGrad(h, f.a, MScale(h[s].grad, f.k)) ELSE h

\* the lambda stored by Matmul
FnMatmul(h, s) ==
    LET f == h[s].fn
        h1 == IF h[f.a].rg
              THEN AddToGrad(h, f.a, MProd(h[s].grad, MTranspose(h[f.b].data)))
              ELSE h
    IN  IF h1[f.b].rg
        THEN AddToGrad(h1, f.b, MProd(MTranspose(h1[f.a].data), h1[s].grad))
        ELSE h1

\* the lambda stored by Transpose
FnTranspose(h, s) ==
    LET f == h[s].fn
    IN  IF h[f.a].rg THEN AddToGrad(h, f.a, MTranspose(h[s].grad)) ELSE h

\* the lambda stored by Sum()
FnSum(h, s) ==
    LET f == h[s].fn
    IN  IF h[f.a].rg
        THEN [h EXCEPT ![f.a].grad = MAddS(@, At(h[s].grad, 0, 0))]
        ELSE h

\* the divisor of the lambda stored by Mean(): m_Data.rows()
MeanDivisor(data) == data.rows

\* the lambda stored by Mean(): m_Grad.array() += self.m_Grad.array() / rows.
\* The right-hand side has the size of self's gradient; with assertions off
\* Eigen reads it at every index of the destination, past its end: junk.
FnMean(h, s, junk) ==
    LET f == h[s].fn
        src == h[s].grad
        n == R(MeanDivisor(h[f.a].data))
    IN  IF h[f.a].rg
        THEN [h EXCEPT ![f.a].grad.v =
                 [k \in 1..Size(h[f.a].grad) |->
                     RAdd(@[k], RDiv(IF k <= Size(src) THEN src.v[k] ELSE junk, n))]]
        ELSE h

\* the lambda stored by Select
FnSelect(h, s) ==
    LET f == h[s].fn
    IN  IF h[f.a].rg THEN AddToGradAt(h, f.a, f.idx + 1, At(h[s].grad, 0, 0)) ELSE h

\* the lambda stored by Reshape
FnReshape(h, s) ==
    LET f == h[s].fn
    IN  IF h[f.a].rg
        THEN [h EXCEPT ![f.a].grad.v =
                 [k \in 1..Size(h[f.a].grad) |-> RAdd(@[k], h[s].grad.v[k])]]
        ELSE h

\* pNode->m_BackwardFn(*pNode)
ApplyFn(h, s, junk) ==
    LET kind == h[s].fn.kind
    IN  CASE kind = "add" -> FnAdd(h, s)
          [] kind = "sub" -> FnSub(h, s)
          [] kind = "mul" -> FnMul(h, s)
          [] kind = "div" -> FnDiv(h, s)
          [] kind = "scale" -> FnScale(h, s)
          [] kind = "matmul" -> FnMatmul(h, s)
          [] kind = "transpose" -> FnTranspose(h, s)
          [] kind = "sum" -> FnSum(h, s)
          [] kind = "mean" -> FnMean(h, s, junk)
          [] kind = "select" -> FnSelect(h, s)
          [] kind = "reshape" -> FnReshape(h, s)
          [] OTHER -> h

(***************************************************************************)
(* Tensor::Backward.                                                       *)
(***************************************************************************)
Last(s) == s[Len(s)]

Pop(s) == SubSeq(s, 1, Len(s) - 1)

Reverse(s) == [k \in 1..Len(s) |-> s[Len(s) + 1 - k]]

\* the loop with a node appended to topo when it is first expanded
RECURSIVE TopoLoopEager(_, _, _, _, _)
TopoLoopEager(h, stack, visited, expanded, topo) ==
    IF stack = <<>> THEN topo
    ELSE LET pNode == Last(stack)
         IN  IF pNode \in visited
             THEN TopoLoopEager(h, Pop(stack), visited, expanded, topo)
             ELSE TopoLoopEager(h,
                                Pop(stack) \o SelectSeq(h[pNode].children,
                                                        LAMBDA pChild : pChild \notin visited),
                                visited \cup {pNode}, expanded, Append(topo, pNode))

\* the while loop over the explicit stack; the result is topo
RECURSIVE TopoLoop(_, _, _, _, _)
TopoLoop(h, stack, visited, expanded, topo) ==
    IF stack = <<>> THEN topo
    ELSE LET pNode == Last(stack)
         IN  IF pNode \in visited
             THEN TopoLoop(h, Pop(stack), visited, expanded, topo)
             ELSE IF pNode \in expanded
             THEN TopoLoop(h, Pop(stack), visited \cup {pNode}, expanded,
                           Append(topo, pNode))
             ELSE TopoLoop(h,
                           stack \o SelectSeq(h[pNode].children,
                                              LAMBDA pChild : pChild \notin visited),
                           visited, expanded \cup {pNode}, topo)

\* topo after the iterative topological sort started from root
TopoSort(h, root) == TopoLoop(h, <<root>>, {}, {}, <<>>)

\* the root's gradient after seeding: resized to the data if empty, then ones
SeedGrad(t) ==
    IF Size(t.grad) = 0 THEN Ones(t.data.rows, t.data.cols)
    ELSE Ones(t.grad.rows, t.grad.cols)

\* the nodes in the order the backward pass walks them: topo reversed
ClosureOrder(h, root) == Reverse(TopoSort(h, root))

\* the backward pass: each node's closure, if it has one, in that order
RECURSIVE RunClosures(_, _, _, _)
RunClosures(h, order, k, junk) ==
    IF k > Len(order) THEN h
    ELSE RunClosures(IF h[order[k]].fn.kind # "none" THEN ApplyFn(h, order[k], junk) ELSE h,
                     order, k + 1, junk)

\* Backward without the requires-grad test
BackwardNoGuard(h, root, junk) ==
    LET seeded == [h EXCEPT ![root].grad = SeedGrad(h[root])]
        order == ClosureOrder(seeded, root)
    IN  [heap |-> RunClosures(seeded, order, 1, junk), log |-> order,
         outcome |-> IF h[root].rg THEN "ok" ELSE "warning"]

\* Tensor::Backward on the tensor at address root: the heap afterwards and
\* the nodes walked (the closure of each that has one is invoked)
Backward(h, root, junk) ==
    IF ~h[root].rg
    THEN [heap |-> h, log |-> <<>>, outcome |-> "warning"]
    ELSE LET seeded == [h EXCEPT ![root].grad = SeedGrad(h[root])]
             order == ClosureOrder(seeded, root)
         IN  [heap |-> RunClosures(seeded, order, 1, junk), log |-> order,
              outcome |-> "ok"]

\* some closure of the pass combines matrices of different sizes, one after
\* another on the heap as the pass leaves it
RECURSIVE SoundFrom(_, _, _, _)
SoundFrom(h, order, k, junk) ==
    IF k > Len(order) THEN TRUE
    ELSE /\ FnSound(h, order[k])
         /\ SoundFrom(ApplyFn(h, order[k], junk), order, k + 1, junk)

\* the closures that fail an Eigen size check but whose loop is modelled
\* (Mean: see FnMean)
RECURSIVE SoundButMean(_, _, _, _)
SoundButMean(h, order, k, junk) ==
    IF k > Len(order) THEN TRUE
    ELSE /\ (FnSound(h, order[k]) \/ h[order[k]].fn.kind = "mean")
         /\ SoundButMean(ApplyFn(h, order[k], junk), order, k + 1, junk)

(***************************************************************************)
(* Inputs of the operations.                                               *)
(***************************************************************************)
Shapes == {<<1, 1>>, <<2, 1>>, <<1, 2>>}

Dims == {1, 2}

VecInputs == {<<R(1)>>, <<R(2), R(3)>>}

Scalars == {R(2)}

InputMats == {Const(1, 1, R(1)), Const(2, 1, R(1))}

SelectIdx == {0 - 1, 0, 1, 2}

\* what a read past the end of a buffer may return
JunkVals == {R(0), R(1)}

Addrs == 1..Len(heap)

(***************************************************************************)
(* History: hist is the roots of the Backward calls made since every       *)
(* gradient on the heap was zero (<<0>> once anything else touched         *)
(* gradients, data or flags, or the roots differ); single is the gradients *)
(* as the first of these calls left them.                                  *)
(***************************************************************************)
AllGradsZero(h) ==
    \A i \in 1..Len(h) : \A k \in 1..Size(h[i].grad) : h[i].grad.v[k] = R(0)

HistAfter(h, kind, root) ==
    IF AllGradsZero(h) THEN <<>>
    ELSE IF kind = "neutral" THEN hist
    ELSE IF kind = "backward" /\ (hist = <<>> \/ hist[1] = root) THEN Append(hist, root)
    ELSE <<0>>

SingleAfter(h, hs) ==
    IF hs = <<>> \/ hs[1] = 0 THEN <<>>
    ELSE IF Len(hs) = 1 THEN [k \in 1..Len(h) |-> h[k].grad]
    ELSE single

Ghost(h, kind, root) ==
    /\ hist' = HistAfter(h, kind, root)
    /\ single' = SingleAfter(h, HistAfter(h, kind, root))

(***************************************************************************)
(* Actions of the tensor engine.  A new tensor gets the next free address. *)
(***************************************************************************)
Call(op, args, outcome) == [op |-> op, args |-> args, outcome |-> outcome]

Store(op, args, res) ==
    /\ status = "running"
    /\ Len(heap) < MaxTensors
    /\ IF res.outcome = "eigen_mismatch"
       THEN /\ status' \in {"aborted", "undefined"}
            /\ UNCHANGED heap
       ELSE /\ heap' = heap \o res.t
            /\ UNCHANGED status
    /\ last' = Call(op, args, res.outcome)
    /\ log' = <<>>
    /\ UNCHANGED <<nBackward, nWrites, hist, single, motors, bodies, worldVars>>

NewTensor ==
    \E shape \in Shapes, rg \in BOOLEAN :
        /\ Len(heap) < MaxTensors
        /\ Store("Tensor", shape, Ok(NewTensorT(shape[1], shape[2], rg)))

NewVector ==
    \E dataList \in VecInputs, rg \in BOOLEAN :
        /\ Len(heap) < MaxTensors
        /\ Store("TensorList", <<Len(dataList)>>, Ok(NewVectorT(dataList, rg)))

Add == \E a \in Addrs, b \in Addrs : Store("Add", <<a, b>>, OpAdd(heap, a, b))

Sub == \E a \in Addrs, b \in Addrs : Store("Sub", <<a, b>>, OpSub(heap, a, b))

Mul == \E a \in Addrs, b \in Addrs : Store("Mul", <<a, b>>, OpMul(heap, a, b))

Div == \E a \in Addrs, b \in Addrs : Store("Div", <<a, b>>, OpDiv(heap, a, b))

Scale == \E a \in Addrs, k \in Scalars : Store("Scale", <<a>>, OpScale(heap, a, k))

Matmul == \E a \in Addrs, b \in Addrs : Store("Matmul", <<a, b>>, OpMatmul(heap, a, b))

Transpose == \E a \in Addrs : Store("Transpose", <<a>>, OpTranspose(heap, a))

Sum == \E a \in Addrs : Store("Sum", <<a>>, OpSum(heap, a))

Mean == \E a \in Addrs : Store("Mean", <<a>>, OpMean(heap, a))

Select ==
    \E a \in Addrs, idx \in SelectIdx : Store("Select", <<a, idx>>, OpSelect(heap, a, idx))

Reshape ==
    \E a \in Addrs, r \in Dims, c \in Dims :
        Store("Reshape", <<a, r, c>>, OpReshape(heap, a, r, c))

\* the values a backward pass from root may read past the end of a buffer:
\* a choice only when some closure of the pass does so
JunkRead(h, root) ==
    LET seeded == [h EXCEPT ![root].grad = SeedGrad(h[root])]
    IN  IF ~h[root].rg \/ SoundFrom(seeded, ClosureOrder(seeded, root), 1, R(0))
        THEN {R(0)} ELSE JunkVals

BackwardCall ==
    \E root \in Addrs : \E junk \in JunkRead(heap, root) :
        LET seeded == [heap EXCEPT ![root].grad = SeedGrad(heap[root])]
            order == ClosureOrder(seeded, root)
            res == Backward(heap, root, junk)
            done == /\ heap' = res.heap
                    /\ log' = res.log
                    /\ last' = Call("Backward", <<root>>, res.outcome)
                    /\ Ghost(res.heap, IF res.outcome = "ok" THEN "backward" ELSE "neutral",
                             root)
                    /\ UNCHANGED status
            stop(st) == /\ status' = st
                        /\ last' = Call("Backward", <<root>>, "eigen_mismatch")
                        /\ UNCHANGED <<heap, log, hist, single>>
        IN  /\ status = "running"
            /\ nBackward < MaxBackward
            /\ nBackward' = nBackward + 1
            /\ UNCHANGED <<nWrites, motors, bodies, worldVars>>
            /\ IF ~heap[root].rg \/ SoundFrom(seeded, order, 1, junk) THEN done
               ELSE \/ stop("aborted")
                    \/ IF SoundButMean(seeded, order, 1, junk) THEN done
                       ELSE stop("undefined")

Update(op, i, t, kind) ==
    /\ status = "running"
    /\ nWrites < MaxWrites
    /\ nWrites' = nWrites + 1
    /\ heap' = [heap EXCEPT ![i] = t]
    /\ last' = Call(op, <<i>>, "ok")
    /\ log' = <<>>
    /\ Ghost([heap EXCEPT ![i] = t], kind, 0)
    /\ UNCHANGED <<status, nBackward, motors, bodies, worldVars>>

ZeroGrad == \E i \in Addrs : Update("ZeroGrad", i, ZeroGradT(heap[i]), "dirty")

SetRequiresGrad ==
    \E i \in Addrs, rg \in BOOLEAN :
        Update("SetRequiresGrad", i, SetRequiresGradT(heap[i], rg), "dirty")

\* Tensor::SetData
SetDataT(t, d) == [t EXCEPT !.data = d]

\* Tensor::SetGrad
SetGradT(t, g) == [t EXCEPT !.grad = g]

SetData == \E i \in Addrs, d \in InputMats : Update("SetData", i, SetDataT(heap[i], d), "dirty")

SetGrad == \E i \in Addrs, g \in InputMats : Update("SetGrad", i, SetGradT(heap[i], g), "dirty")

InitTensors ==
    /\ heap = <<>>
    /\ status = "running"
    /\ last = Call("none", <<>>, "ok")
    /\ log = <<>>
    /\ nBackward = 0
    /\ nWrites = 0
    /\ hist = <<>>
    /\ single = <<>>

(***************************************************************************)
(* Motor and Body::AddMotor.  motors is the pool of Motor objects, bodies  *)
(* the Body objects; a body's motor list and a motor's parent hold         *)
(* indices into these (0: nullptr).                                        *)
(***************************************************************************)
RLess(a, b) == \E x \in {a}, y \in {b} : x.n * y.d < y.n * x.d

\* Tensor::Get
GetT(t, r, c) ==
    IF r >= 0 /\ r < t.data.rows /\ c >= 0 /\ c < t.data.cols THEN At(t.data, r, c)
    ELSE R(0)

\* Motor(lx, ly, w, h, m, maxT)
NewMotorM(lx, ly, w, h, m, maxT) ==
    [local_x |-> lx, local_y |-> ly, width |-> w, height |-> h, mass |-> m,
     thrust |-> 0, max_thrust |-> maxT, parent |-> 0]

Min(a, b) == IF b < a THEN b ELSE a

Max(a, b) == IF a < b THEN b ELSE a

\* the upper limit alone
ClampNoFloor(t, maxT) == Min(t, maxT)

\* the value Motor::SetThrust stores
Clamp(t, maxT) == Max(0, Min(t, maxT))

\* rectangles that only touch along an edge taken as apart
OverlapsStrict(m1, m2) ==
    LET left1 == RSub(R(m1.local_x), RDiv(R(m1.width), R(2)))
        right1 == RAdd(R(m1.local_x), RDiv(R(m1.width), R(2)))
        bottom1 == RSub(R(m1.local_y), RDiv(R(m1.height), R(2)))
        top1 == RAdd(R(m1.local_y), RDiv(R(m1.height), R(2)))
        left2 == RSub(R(m2.local_x), RDiv(R(m2.width), R(2)))
        right2 == RAdd(R(m2.local_x), RDiv(R(m2.width), R(2)))
        bottom2 == RSub(R(m2.local_y), RDiv(R(m2.height), R(2)))
        top2 == RAdd(R(m2.local_y), RDiv(R(m2.height), R(2)))
    IN  ~(~RLess(left2, right1) \/ ~RLess(left1, right2)
            \/ ~RLess(bottom2, top1) \/ ~RLess(bottom1, top2))

\* Motor::Overlaps
Overlaps(m1, m2) ==
    LET left1 == RSub(R(m1.local_x), RDiv(R(m1.width), R(2)))
        right1 == RAdd(R(m1.local_x), RDiv(R(m1.width), R(2)))
        bottom1 == RSub(R(m1.local_y), RDiv(R(m1.height), R(2)))
        top1 == RAdd(R(m1.local_y), RDiv(R(m1.height), R(2)))
        left2 == RSub(R(m2.local_x), RDiv(R(m2.width), R(2)))
        right2 == RAdd(R(m2.local_x), RDiv(R(m2.width), R(2)))
        bottom2 == RSub(R(m2.local_y), RDiv(R(m2.height), R(2)))
        top2 == RAdd(R(m2.local_y), RDiv(R(m2.height), R(2)))
    IN  ~(RLess(right1, left2) \/ RLess(right2, left1)
            \/ RLess(top1, bottom2) \/ RLess(top2, bottom1))

\* Body::ResetForces: the two accumulators
ZeroForce == NewVectorT(<<R(0), R(0)>>, FALSE)

ZeroTorque == NewVectorT(<<R(0)>>, FALSE)

\* Body::Body: the state tensors, mass and box inertia m * (w^2 + h^2) / 12,
\* the box shape, zeroed accumulators, no motors
NewBodyB(x, y, massVal, width, height) ==
    [pos |-> NewVectorT(<<R(x), R(y)>>, TRUE),
     vel |-> NewVectorT(<<R(0), R(0)>>, TRUE),
     rotation |-> NewVectorT(<<R(0)>>, TRUE),
     ang_vel |-> NewVectorT(<<R(0)>>, TRUE),
     mass |-> NewVectorT(<<R(massVal)>>, FALSE),
     inertia |-> NewVectorT(<<RDiv(R(massVal * (width * width + height * height)), R(12))>>,
                            FALSE),
     force |-> ZeroForce,
     torque |-> ZeroTorque,
     width |-> width,
     height |-> height,
     is_static |-> FALSE,
     friction |-> RNorm(1, 2),
     restitution |-> R(0),
     motors |-> <<>>,
     garbage_collector |-> <<>>]

\* Body::AddMotor past the overlap check: the body afterwards
AttachB(body, m, motor) ==
    LET newMass == RAdd(GetT(body.mass, 0, 0), R(motor.mass))
        rSq == motor.local_x * motor.local_x + motor.local_y * motor.local_y
        newInertia == RAdd(GetT(body.inertia, 0, 0), R(motor.mass * rSq))
    IN  [body EXCEPT !.mass = NewVectorT(<<newMass>>, TRUE),
                     !.inertia = NewVectorT(<<newInertia>>, TRUE),
                     !.motors = Append(body.motors, m)]

\* the motors handed to the constructor, which accepts any max_thrust
MotorInputs ==
    {NewMotorM(0, 0, 1, 1, 1, 2), NewMotorM(1, 0, 1, 1, 1, 1),
     NewMotorM(2, 0, 2, 2, 1, 0 - 1)}

ThrustInputs == {0 - 1, 0, 1, 3}

MotorStep(op, args, outcome) ==
    /\ last' = Call(op, args, outcome)
    /\ UNCHANGED <<heap, status, log, nBackward, nWrites, hist, single, worldVars>>

NewMotor ==
    \E motor \in MotorInputs :
        /\ Len(motors) < MaxMotors
        /\ motors' = Append(motors, motor)
        /\ UNCHANGED bodies
        /\ MotorStep("Motor", <<Len(motors) + 1>>, "ok")

AddMotor ==
    \E b \in 1..Len(bodies), m \in 1..Len(motors) :
        IF \E k \in 1..Len(bodies[b].motors) :
               Overlaps(motors[bodies[b].motors[k]], motors[m])
        THEN /\ UNCHANGED <<motors, bodies>>
             /\ MotorStep("AddMotor", <<b, m>>, "throw")
        ELSE /\ motors' = [motors EXCEPT ![m].parent = b]
             /\ bodies' = [bodies EXCEPT ![b] = AttachB(@, m, motors[m])]
             /\ MotorStep("AddMotor", <<b, m>>, "ok")

SetThrust ==
    \E m \in 1..Len(motors), t \in ThrustInputs :
        /\ motors' = [motors EXCEPT ![m].thrust = Clamp(t, motors[m].max_thrust)]
        /\ UNCHANGED bodies
        /\ MotorStep("SetThrust", <<m, t>>, "ok")

InitMotors ==
    /\ motors = <<>>
    /\ bodies = <<NewBodyB(0, 0, 1, 2, 2), NewBodyB(0, 0, 3, 2, 4)>>

\* Engine::Engine: gravity (0, -9.81), no bodies, no segments
EngineE(dt_val, substeps_val) ==
    [dt |-> dt_val, substeps |-> substeps_val,
     gravity |-> NewVectorT(<<R(0), RNorm(0 - 981, 100)>>, FALSE),
     bodies |-> <<>>, static_geometry |-> <<>>]

\* no Backward call under way
IdleWalk ==
    [pc |-> "idle", root |-> 0, stack |-> <<>>, visited |-> {}, expanded |-> {},
     topo |-> <<>>, k |-> 0]

\* ContactManager: m_ManifoldCache (key -> manifold) and m_ActiveManifolds
\* (the keys of the manifolds pointed to); marked and plain record the frame
\* under way: the keys marked touching since the last BeginFrame, and whether
\* only narrowphase calls and lookups were made since; inFrame holds from
\* BeginFrame until EndFrame, and before is the touching flag each cached
\* manifold had when BeginFrame was called
EmptyManager ==
    [cache |-> <<>>, active |-> <<>>, marked |-> {}, plain |-> FALSE,
     inFrame |-> FALSE, before |-> <<>>]

InitWorld ==
    /\ engine = EngineE(R(1), 1)
    /\ phases = <<>>
    /\ manager = EmptyManager
    /\ optim = <<>>
    /\ nCalls = 0
    /\ walk = IdleWalk

Init == InitTensors /\ InitMotors /\ InitWorld

\* graph construction and the backward pass
Next ==
    \/ NewTensor
    \/ Add
    \/ Scale
    \/ Mean
    \/ BackwardCall

Spec == Init /\ [][Next]_vars

\* every operation, on leaves and on results
NextOps ==
    \/ NewTensor
    \/ NewVector
    \/ Add
    \/ Sub
    \/ Mul
    \/ Div
    \/ Scale
    \/ Matmul
    \/ Transpose
    \/ Sum
    \/ Mean
    \/ Select
    \/ Reshape
    \/ BackwardCall

SpecOps == Init /\ [][NextOps]_vars

\* the accessors that write data, gradient and flag
NextAccess ==
    \/ NewTensor
    \/ Add
    \/ BackwardCall
    \/ ZeroGrad
    \/ SetRequiresGrad
    \/ SetData
    \/ SetGrad

SpecAccess == Init /\ [][NextAccess]_vars

\* motors: construction, attachment, thrust commands
NextMotor ==
    \/ NewMotor
    \/ AddMotor
    \/ SetThrust

SpecMotor == Init /\ [][NextMotor]_vars

(***************************************************************************)
(* Body dynamics.  The tensors one Body call touches are laid out by       *)
(* address: 1..8 the members pos, vel, rotation, ang_vel, mass, inertia,   *)
(* m_ForceAccumulator, m_TorqueAccumulator; 9, 10 the caller's arguments;  *)
(* 11.. the locals and temporaries in the order the call creates them.     *)
(* Child lists and closures of the results hold these addresses.           *)
(***************************************************************************)
BodyFrame(body) ==
    <<body.pos, body.vel, body.rotation, body.ang_vel, body.mass, body.inertia,
      body.force, body.torque>>

\* the tensor an operation returns
Ret(res) == res.t[1]

\* Body::CreateStatic
CreateStaticB(x, y, width, height, rotationVal) ==
    LET pBody == NewBodyB(x, y, 1, width, height)
    IN  [pBody EXCEPT !.is_static = TRUE,
                      !.friction = RNorm(4, 5),
                      !.restitution = R(0),
                      !.rotation = IF rotationVal # R(0)
                                   THEN NewVectorT(<<rotationVal>>, FALSE) ELSE @]

\* Body::ResetForces
ResetForcesB(body) == [body EXCEPT !.force = ZeroForce, !.torque = ZeroTorque]

\* one tensor statement of a Body method on its frame: the operands are
\* addresses a and b, the result is stored at address dst, or takes the
\* next free address when dst is 0
Ins(op, a, b, dst) == [op |-> op, a |-> a, b |-> b, dst |-> dst, t |-> ZeroTorque]

\* the construction of a local tensor t, at the next free address
Local(t) == [op |-> "tensor", a |-> 0, b |-> 0, dst |-> 0, t |-> t]

Exec(frame, ins) ==
    LET res == CASE ins.op = "tensor" -> ins.t
                 [] ins.op = "add" -> Ret(OpAdd(frame, ins.a, ins.b))
                 [] ins.op = "sub" -> Ret(OpSub(frame, ins.a, ins.b))
                 [] ins.op = "mul" -> Ret(OpMul(frame, ins.a, ins.b))
                 [] ins.op = "div" -> Ret(OpDiv(frame, ins.a, ins.b))
                 [] ins.op = "select" -> Ret(OpSelect(frame, ins.a, ins.b))
    IN  IF ins.dst = 0 THEN Append(frame, res) ELSE [frame EXCEPT ![ins.dst] = res]

\* the frame after the statements k.. of prog (each statement's frame is
\* computed once, then handed on)
RECURSIVE Run(_, _, _)
Run(frame, prog, k) ==
    IF k > Len(prog) THEN frame
    ELSE CHOOSE r \in {Run(f, prog, k + 1) : f \in {Exec(frame, prog[k])}} : TRUE

\* the body whose members are the first eight tensors of the frame
FromFrame(body, frame) ==
    [body EXCEPT !.pos = frame[1], !.vel = frame[2], !.rotation = frame[3],
                 !.ang_vel = frame[4], !.mass = frame[5], !.inertia = frame[6],
                 !.force = frame[7], !.torque = frame[8]]

\* Body::ApplyForce(f), f at address fAdr of the frame
ApplyForceB(body, frame, fAdr) ==
    FromFrame(body, Run(frame, <<Ins("add", 7, fAdr, 7)>>, 1))

\* Body::ApplyTorque(t), t at address tAdr of the frame
ApplyTorqueB(body, frame, tAdr) ==
    FromFrame(body, Run(frame, <<Ins("add", 8, tAdr, 8)>>, 1))

\* garbage_collector.push_back of n tensors made by the call named: the
\* arena holds, for each tensor kept, the call that put it there
KeepB(body, n, call) ==
    [body EXCEPT !.garbage_collector = @ \o [k \in 1..n |-> call]]

\* Body::GetCorners: the body afterwards (the arena cleared, then cosT, sinT,
\* px, py and rotX, rotY, finalX, finalY of each of the four corners kept)
GetCornersKeptB(body) ==
    KeepB([body EXCEPT !.garbage_collector = <<>>], 4 + 4 * 4, "GetCorners")

\* Body::ApplyForceAtPoint(force, point): force at 9, point at 10; ApplyForce,
\* then px, py, pointX, pointY at 11..14, dx, dy at 15, 16, fx, fy at 17, 18,
\* the two products at 19, 20, torque at 21, ApplyTorque; a copy of each of
\* the eleven locals is pushed into the arena
ApplyForceAtPointB(body, force, point) ==
    FromFrame(KeepB(body, 11, "ApplyForceAtPoint"),
              Run(BodyFrame(body) \o <<force, point>>,
                  <<Ins("add", 7, 9, 7),
                    Ins("select", 1, 0, 0), Ins("select", 1, 1, 0),
                    Ins("select", 10, 0, 0), Ins("select", 10, 1, 0),
                    Ins("sub", 13, 11, 0), Ins("sub", 14, 12, 0),
                    Ins("select", 9, 0, 0), Ins("select", 9, 1, 0),
                    Ins("mul", 15, 18, 0), Ins("mul", 16, 17, 0),
                    Ins("sub", 19, 20, 0),
                    Ins("add", 8, 21, 8)>>, 1))

\* Body::Step with the position and the rotation taken from the velocities
\* before their update
StepExplicitB(body, forces, torque, fAdr, tAdr, dt) ==
    FromFrame(body,
              Run(BodyFrame(body) \o <<forces, torque>>,
                  <<Local(NewVectorT(<<R(1)>>, FALSE)), Ins("div", 11, 5, 0),
                    Ins("mul", fAdr, 12, 0),
                    Local(NewVectorT(<<R(1)>>, FALSE)), Ins("div", 14, 6, 0),
                    Ins("mul", tAdr, 15, 0),
                    Local(NewVectorT(<<dt>>, FALSE)),
                    Ins("mul", 13, 17, 0), Ins("mul", 2, 17, 0),
                    Ins("mul", 16, 17, 0), Ins("mul", 4, 17, 0),
                    Ins("add", 2, 18, 2), Ins("add", 1, 19, 1),
                    Ins("add", 4, 20, 4), Ins("add", 3, 21, 3)>>, 1))

\* Body::Step(forces, torque, dt): forces at fAdr, torque at tAdr (9 and 10
\* for a caller's tensors, 7 and 8 for the body's own accumulators); the
\* one-tensor at 11, invMass at 12, acc at 13, the one-tensor at 14, invI at
\* 15, alpha at 16, dtTensor at 17, then each product and the member it is
\* added to
StepB(body, forces, torque, fAdr, tAdr, dt) ==
    FromFrame(body,
              Run(BodyFrame(body) \o <<forces, torque>>,
                  <<Local(NewVectorT(<<R(1)>>, FALSE)), Ins("div", 11, 5, 0),
                    Ins("mul", fAdr, 12, 0),
                    Local(NewVectorT(<<R(1)>>, FALSE)), Ins("div", 14, 6, 0),
                    Ins("mul", tAdr, 15, 0),
                    Local(NewVectorT(<<dt>>, FALSE)),
                    Ins("mul", 13, 17, 0), Ins("add", 2, 18, 2),
                    Ins("mul", 2, 17, 0), Ins("add", 1, 19, 1),
                    Ins("mul", 16, 17, 0), Ins("add", 4, 20, 4),
                    Ins("mul", 4, 17, 0), Ins("add", 3, 21, 3)>>, 1))

\* Body::Step(dt)
\* Step(dt) without its ResetForces
StepAutoKeepB(body, dt) ==
    StepB(body, body.force, body.torque, 7, 8, dt)

StepAutoB(body, dt) ==
    ResetForcesB(StepB(body, body.force, body.torque, 7, 8, dt))

\* arguments of the body calls
BodyInputs == {<<0, 1, 2, 1, 1>>}

StaticInputs == {<<0, 0, 3, 4, R(0)>>, <<0, 1, 1, 1, R(1)>>}

ForceInputs == {<<R(0), R(0)>>, <<R(2), R(0 - 1)>>}

TorqueInputs == {R(0), R(3)}

DtInputs == {R(1), RNorm(1, 2)}

PointInputs == {<<R(1), R(1)>>}

\* forces, torque, dt of Body::Step
StepInputs ==
    {<<<<R(0), R(0)>>, R(0), R(1)>>,
     <<<<R(2), R(0 - 1)>>, R(3), RNorm(1, 2)>>,
     <<<<R(2), R(0 - 1)>>, R(0), R(1)>>}

BodyCall(op, args, outcome) ==
    /\ nCalls < MaxBodyCalls
    /\ nCalls' = nCalls + 1
    /\ last' = Call(op, args, outcome)
    /\ UNCHANGED <<heap, status, log, nBackward, nWrites, hist, single, walk, motors,
                   engine, phases, manager, optim>>

NewBody ==
    \E in \in BodyInputs :
        /\ Len(bodies) < MaxBodies
        /\ bodies' = Append(bodies, NewBodyB(in[1], in[2], in[3], in[4], in[5]))
        /\ last' = Call("Body", <<Len(bodies) + 1>>, "ok")
        /\ UNCHANGED <<heap, status, log, nBackward, nWrites, hist, single, motors, worldVars>>

CreateStatic ==
    \E in \in StaticInputs :
        /\ Len(bodies) < MaxBodies
        /\ bodies' = Append(bodies, CreateStaticB(in[1], in[2], in[3], in[4], in[5]))
        /\ last' = Call("CreateStatic", <<Len(bodies) + 1>>, "ok")
        /\ UNCHANGED <<heap, status, log, nBackward, nWrites, hist, single, motors, worldVars>>

ApplyForce ==
    \E b \in 1..Len(bodies), f \in ForceInputs :
        /\ bodies' = [bodies EXCEPT ![b] =
                         ApplyForceB(@, BodyFrame(@) \o <<NewVectorT(f, FALSE)>>, 9)]
        /\ BodyCall("ApplyForce", <<b, f>>, "ok")

ApplyTorque ==
    \E b \in 1..Len(bodies), t \in TorqueInputs :
        /\ bodies' = [bodies EXCEPT ![b] =
                         ApplyTorqueB(@, BodyFrame(@) \o <<NewVectorT(<<t>>, FALSE)>>, 9)]
        /\ BodyCall("ApplyTorque", <<b, t>>, "ok")

ApplyForceAtPoint ==
    \E b \in 1..Len(bodies), f \in ForceInputs, p \in PointInputs :
        /\ bodies' = [bodies EXCEPT ![b] =
                         ApplyForceAtPointB(@, NewVectorT(f, FALSE), NewVectorT(p, FALSE))]
        /\ BodyCall("ApplyForceAtPoint", <<b, f, p>>, "ok")

StepManual ==
    \E b \in 1..Len(bodies), in \in StepInputs :
        /\ bodies' = [bodies EXCEPT ![b] =
                         StepB(@, NewVectorT(in[1], FALSE), NewVectorT(<<in[2]>>, FALSE),
                               9, 10, in[3])]
        /\ BodyCall("Step", <<b, in[1], in[2], in[3]>>, "ok")

StepAuto ==
    \E b \in 1..Len(bodies), dt \in DtInputs :
        /\ bodies' = [bodies EXCEPT ![b] = StepAutoB(@, dt)]
        /\ BodyCall("StepDt", <<b, dt>>, "ok")

GetCorners ==
    \E b \in 1..Len(bodies) :
        /\ bodies' = [bodies EXCEPT ![b] = GetCornersKeptB(@)]
        /\ BodyCall("GetCorners", <<b>>, "ok")

ResetForces ==
    \E b \in 1..Len(bodies) :
        /\ bodies' = [bodies EXCEPT ![b] = ResetForcesB(@)]
        /\ BodyCall("ResetForces", <<b>>, "ok")

InitBodies ==
    /\ InitTensors
    /\ InitWorld
    /\ motors = <<>>
    /\ bodies = <<>>

\* bodies: construction, force application, integration
NextBody ==
    \/ NewBody
    \/ CreateStatic
    \/ ApplyForce
    \/ ApplyTorque
    \/ ApplyForceAtPoint
    \/ StepManual
    \/ StepAuto
    \/ GetCorners
    \/ ResetForces

SpecBody == InitBodies /\ [][NextBody]_vars

(***************************************************************************)
(* Engine.  engine.bodies holds indices into bodies, in registration       *)
(* order.  The contact kernel is computed on the numbers its tensors hold; *)
(* the force it hands to Body::ApplyForceAtPoint is carried as a tensor    *)
(* without the graph under it.  Square root, cosine, sine and tanh are     *)
(* exact on the arguments used here (perfect squares, zero) and rational   *)
(* stand-ins elsewhere.                                                    *)
(***************************************************************************)
\* the integer part of the square root
ISqrt(n) == CHOOSE k \in 0..n : k * k <= n /\ (k + 1) * (k + 1) > n

\* std::sqrt: exact on squares of rationals
RSqrt(x) == RNorm(ISqrt(x.n * x.d), x.d)

\* std::cos, std::sin: the point of the unit circle with half-angle tangent x/2
RCos(x) ==
    CHOOSE r \in {RDiv(RSub(R(1), t2), RAdd(R(1), t2)) :
                    t2 \in {RMul(RDiv(x, R(2)), RDiv(x, R(2)))}} : TRUE

RSin(x) == RDiv(x, RAdd(R(1), RMul(RDiv(x, R(2)), RDiv(x, R(2)))))

\* tanh: odd, increasing, inside (-1, 1), zero at zero
RTanh(x) == CHOOSE r \in {RDiv(v, RAdd(R(1), [n |-> Abs(v.n), d |-> v.d])) : v \in {x}} : TRUE

RLeq(a, b) == \E x \in {a}, y \in {b} : x.n * y.d <= y.n * x.d

RMin(a, b) == IF RLess(b, a) THEN b ELSE a

RMax(a, b) == IF RLess(a, b) THEN b ELSE a

\* Body::GetCorners: the corners TR, TL, BL, BR as <<x, y>>
GetCornersB(body) ==
    LET hw == RDiv(R(body.width), R(2))
        hh == RDiv(R(body.height), R(2))
        offsets == <<<<hw, hh>>, <<RNeg(hw), hh>>, <<RNeg(hw), RNeg(hh)>>, <<hw, RNeg(hh)>>>>
        cosT == RCos(GetT(body.rotation, 0, 0))
        sinT == RSin(GetT(body.rotation, 0, 0))
        px == GetT(body.pos, 0, 0)
        py == GetT(body.pos, 1, 0)
    IN  [i \in 1..4 |->
            <<RAdd(px, RSub(RMul(cosT, offsets[i][1]), RMul(sinT, offsets[i][2]))),
              RAdd(py, RAdd(RMul(sinT, offsets[i][1]), RMul(cosT, offsets[i][2])))>>]

\* Body::GetAABB: the square of half-diagonal radius around the centre
GetAABBB(body) ==
    LET radius == RDiv(RSqrt(R(body.width * body.width + body.height * body.height)), R(2))
        x == GetT(body.pos, 0, 0)
        y == GetT(body.pos, 1, 0)
    IN  [min_x |-> RSub(x, radius), max_x |-> RAdd(x, radius),
         min_y |-> RSub(y, radius), max_y |-> RAdd(y, radius)]

\* aabb_overlap
aabb_overlap(a, seg) ==
    /\ RLeq(a.min_x, seg.max_x)
    /\ RLeq(seg.min_x, a.max_x)
    /\ RLeq(a.min_y, seg.max_y)
    /\ RLeq(seg.min_y, a.max_y)

\* the GroundSegment Engine::add_ground_segment stores
GroundSegmentE(x1, y1, x2, y2, friction) ==
    LET dx == x2 - x1
        dy == y2 - y1
        len == RSqrt(R(dx * dx + dy * dy))
        margin == R(1)
    IN  [x1 |-> R(x1), y1 |-> R(y1), x2 |-> R(x2), y2 |-> R(y2),
         k |-> R(20000), damping |-> R(100), friction |-> friction,
         nx |-> IF RLess(R(0), len) THEN RDiv(R(0 - dy), len) ELSE R(0),
         ny |-> IF RLess(R(0), len) THEN RDiv(R(dx), len) ELSE R(1),
         min_x |-> RSub(R(Min(x1, x2)), margin), max_x |-> RAdd(R(Max(x1, x2)), margin),
         min_y |-> RSub(R(Min(y1, y2)), margin), max_y |-> RAdd(R(Max(y1, y2)), margin)]

\* the broadphase of Engine::update: indices of the candidate segments
Candidates(body, geometry) ==
    SelectSeq([i \in 1..Len(geometry) |-> i],
              LAMBDA i : aabb_overlap(GetAABBB(body), geometry[i]))

\* the signed distance of a corner to the line of a segment
Dist(c, seg) ==
    RAdd(RMul(RSub(c[1], seg.x1), seg.nx), RMul(RSub(c[2], seg.y1), seg.ny))

\* the projection parameter of a corner along a segment
Proj(c, seg) ==
    LET seg_dx == RSub(seg.x2, seg.x1)
        seg_dy == RSub(seg.y2, seg.y1)
    IN  RDiv(RAdd(RMul(RSub(c[1], seg.x1), seg_dx), RMul(RSub(c[2], seg.y1), seg_dy)),
             RAdd(RMul(seg_dx, seg_dx), RMul(seg_dy, seg_dy)))

\* the narrowphase test of Engine::update
InContact(c, seg) ==
    LET t_epsilon == RNorm(1, 20)
    IN  /\ RLess(Dist(c, seg), R(0))
        /\ RLeq(RNeg(t_epsilon), Proj(c, seg))
        /\ RLeq(Proj(c, seg), RAdd(R(1), t_epsilon))

\* the force of one segment on one corner, weighted: <<w_fx, w_fy, weight>>
SegForce(body, c, seg) ==
    LET rx == RSub(c[1], GetT(body.pos, 0, 0))
        ry == RSub(c[2], GetT(body.pos, 1, 0))
        omega == GetT(body.ang_vel, 0, 0)
        tx == RNeg(seg.ny)
        ty == seg.nx
    IN  CHOOSE r \in
            {LET spring_force_mag == RMul(dist_t, RNeg(seg.k))
                 v_proj == RAdd(RMul(vp_x, seg.nx), RMul(vp_y, seg.ny))
                 damp_force_mag == RMul(v_proj, RNeg(seg.damping))
                 v_tan == RAdd(RMul(vp_x, tx), RMul(vp_y, ty))
                 friction_dir == RTanh(RMul(v_tan, R(2)))
                 weight == RNeg(dist_t)
             IN  CHOOSE r2 \in
                     {LET friction_coeff == RMul(total_normal_mag, RNeg(seg.friction))
                      IN  CHOOSE r3 \in
                              {<<RMul(RAdd(RMul(seg.nx, total_normal_mag),
                                           RMul(tx, f_friction_mag)), weight),
                                 RMul(RAdd(RMul(seg.ny, total_normal_mag),
                                           RMul(ty, f_friction_mag)), weight),
                                 weight>> :
                                  f_friction_mag \in {RMul(friction_coeff, friction_dir)}} :
                              TRUE :
                         total_normal_mag \in {RAdd(spring_force_mag, damp_force_mag)}} :
                     TRUE :
                dist_t \in {Dist(c, seg)},
                vp_x \in {RAdd(GetT(body.vel, 0, 0), RNeg(RMul(omega, ry)))},
                vp_y \in {RAdd(GetT(body.vel, 1, 0), RMul(omega, rx))}} : TRUE

\* the sums over the candidates in contact with a corner, from candidate k on
RECURSIVE SumForces(_, _, _, _, _, _)
SumForces(body, c, geometry, cands, k, sums) ==
    IF k > Len(cands) THEN sums
    ELSE CHOOSE r \in
             {SumForces(body, c, geometry, cands, k + 1, s1) :
                 s1 \in {IF InContact(c, geometry[cands[k]])
                         THEN CHOOSE r2 \in
                                  {<<RAdd(sums[1], f[1]), RAdd(sums[2], f[2]),
                                     RAdd(sums[3], f[3])>> :
                                      f \in {SegForce(body, c, geometry[cands[k]])}} : TRUE
                         ELSE sums}} : TRUE

\* the narrowphase loop over the corners from corner i on: the body after
\* the weighted average force of each corner in contact is applied at it
RECURSIVE CornerLoop(_, _, _, _, _)
CornerLoop(body, corners, geometry, cands, i) ==
    IF i > Len(corners) THEN body
    ELSE LET has_contact == \E k \in 1..Len(cands) : InContact(corners[i], geometry[cands[k]])
         IN  CHOOSE r \in
                 {CornerLoop(b, corners, geometry, cands, i + 1) :
                     b \in {IF has_contact
                            THEN CHOOSE r2 \in
                                     {ApplyForceAtPointB(
                                          KeepB(body,
                                                3 + 44 * Cardinality(
                                                    {k \in 1..Len(cands) :
                                                        InContact(corners[i],
                                                                  geometry[cands[k]])}) + 8,
                                                "keep"),
                                          NewVectorT(<<RDiv(sums[1], sums[3]),
                                                       RDiv(sums[2], sums[3])>>, TRUE),
                                          NewVectorT(corners[i], TRUE)) :
                                         sums \in {SumForces(body, corners[i], geometry, cands,
                                                             1, <<R(0), R(0), R(0)>>)}} : TRUE
                            ELSE KeepB(body, 3, "keep")}} : TRUE

\* the body of the substep loop of Engine::update for one body
UpdateBodyB(body, eng, sub_dt) ==
    CHOOSE r \in
        {StepAutoB(b2, sub_dt) :
            b2 \in {CHOOSE r2 \in
                        {CornerLoop(b1, corners, eng.static_geometry, cands, 1) :
                            corners \in {GetCornersB(b1)},
                            cands \in {Candidates(b1, eng.static_geometry)}} : TRUE :
                       b1 \in {FromFrame(GetCornersKeptB(body),
                                         Run(BodyFrame(body) \o <<eng.gravity>>,
                                             <<Ins("mul", 9, 5, 0), Ins("add", 7, 10, 7)>>,
                                             1))}}} : TRUE

\* what the substep loop does to one body, in order
BodyPhases(step_i, b) ==
    <<<<step_i, b, "gravity">>, <<step_i, b, "contact">>, <<step_i, b, "integrate">>>>

\* the loops of Engine::update from body k of substep step_i on:
\* the bodies afterwards and the phases run
RECURSIVE UpdateLoop(_, _, _, _, _)
UpdateLoop(bs, ph, eng, step_i, k) ==
    IF step_i > eng.substeps THEN [bodies |-> bs, phases |-> ph]
    ELSE IF k > Len(eng.bodies) THEN UpdateLoop(bs, ph, eng, step_i + 1, 1)
    ELSE CHOOSE r \in
             {UpdateLoop(bs1, ph \o BodyPhases(step_i, eng.bodies[k]), eng, step_i, k + 1) :
                 bs1 \in {[bs EXCEPT ![eng.bodies[k]] =
                              UpdateBodyB(@, eng, RDiv(eng.dt, R(eng.substeps)))]}} : TRUE

\* arguments of the engine calls
SegmentInputs == {<<0, 0, 10, 0, RNorm(1, 2)>>, <<2, 0, 8, 0, R(0)>>}

GravityInputs == {<<0, 0>>, <<0, 0 - 10>>}

EngineInputs == {<<R(1), 1>>, <<R(1), 2>>}

EngineCall(op, args) ==
    /\ nCalls < MaxEngineCalls
    /\ nCalls' = nCalls + 1
    /\ last' = Call(op, args, "ok")
    /\ UNCHANGED <<heap, status, log, nBackward, nWrites, hist, single, walk, motors,
                   manager, optim>>

\* Engine::add_body
add_body ==
    \E b \in 1..Len(bodies) :
        /\ Len(engine.bodies) < MaxBodies + 1
        /\ engine' = [engine EXCEPT !.bodies = Append(@, b)]
        /\ EngineCall("add_body", <<b>>)
        /\ UNCHANGED <<bodies, phases>>

\* Engine::set_gravity
set_gravity ==
    \E g \in GravityInputs :
        /\ engine' = [engine EXCEPT !.gravity = NewVectorT(<<R(g[1]), R(g[2])>>, FALSE)]
        /\ EngineCall("set_gravity", g)
        /\ UNCHANGED <<bodies, phases>>

\* Engine::add_ground_segment
add_ground_segment ==
    \E in \in SegmentInputs :
        /\ Len(engine.static_geometry) < MaxBodies + 1
        /\ engine' = [engine EXCEPT !.static_geometry =
                         Append(@, GroundSegmentE(in[1], in[2], in[3], in[4], in[5]))]
        /\ EngineCall("add_ground_segment", in)
        /\ UNCHANGED <<bodies, phases>>

\* Engine::clear_geometry
clear_geometry ==
    /\ engine' = [engine EXCEPT !.static_geometry = <<>>]
    /\ EngineCall("clear_geometry", <<>>)
    /\ UNCHANGED <<bodies, phases>>

\* Engine::update
update ==
    LET out == UpdateLoop(bodies, <<>>, engine, 1, 1)
    IN  /\ bodies' = out.bodies
        /\ phases' = out.phases
        /\ EngineCall("update", <<>>)
        /\ UNCHANGED engine

\* a body above the first segment with a motor at thrust 2, its lower
\* corners one unit under the line; a static body far under every segment
InitEngine ==
    /\ InitTensors
    /\ motors = <<[NewMotorM(0, 0, 1, 1, 1, 2) EXCEPT !.thrust = 2, !.parent = 1]>>
    /\ bodies = <<AttachB(NewBodyB(5, 1, 1, 3, 4), 1, NewMotorM(0, 0, 1, 1, 1, 2)),
                  CreateStaticB(5, 0 - 5, 3, 4, R(0))>>
    /\ engine \in {EngineE(in[1], in[2]) : in \in EngineInputs}
    /\ phases = <<>>
    /\ manager = EmptyManager
    /\ optim = <<>>
    /\ nCalls = 0
    /\ walk = IdleWalk

\* the engine: registration, geometry, gravity, update
NextEngine ==
    \/ add_body
    \/ set_gravity
    \/ add_ground_segment
    \/ clear_geometry
    \/ update

SpecEngine == InitEngine /\ [][NextEngine]_vars

(***************************************************************************)
(* ContactManager.  Body pointers are indices into bodies; a pointer to a  *)
(* manifold of the cache is the manifold's key.  ContactKey and the        *)
(* defaults of a ContactManifold come from the contact header: the key     *)
(* orders the pair by address, a new manifold has both flags false and     *)
(* zero impulses.                                                          *)
(***************************************************************************)
\* ContactKey{pBodyA, pBodyB}
ContactKey(pBodyA, pBodyB) ==
    IF pBodyB < pBodyA THEN <<pBodyB, pBodyA>> ELSE <<pBodyA, pBodyB>>

\* ContactManifold(): a default-constructed manifold
DefaultManifold ==
    [body_a |-> 0, body_b |-> 0, friction |-> R(0), restitution |-> R(0),
     touching |-> FALSE, was_touching |-> FALSE,
     normal_impulse |-> <<R(0), R(0)>>, tangent_impulse |-> <<R(0), R(0)>>,
     point_count |-> 0, points |-> <<>>,
     normal |-> <<R(0), R(0)>>, tangent |-> <<R(0), R(0)>>,
     normal_mass |-> <<R(0), R(0)>>, tangent_mass |-> <<R(0), R(0)>>]

\* the map m restricted to the keys of S
Restrict(m, S) == IF S = {} THEN <<>> ELSE [k \in S |-> m[k]]

\* the map m with key k bound to v
Insert(m, k, v) == [x \in DOMAIN m \cup {k} |-> IF x = k THEN v ELSE m[x]]

\* the keys of S in the order the map iterates them
RECURSIVE KeyOrder(_)
KeyOrder(S) ==
    IF S = {} THEN <<>>
    ELSE LET k == CHOOSE x \in S : \A y \in S : x[1] < y[1] \/ (x[1] = y[1] /\ x[2] <= y[2])
         IN  <<k>> \o KeyOrder(S \ {k})

\* ContactManager::GetOrCreate keyed by the pair as given
GetOrCreateRawM(mgr, bs, pBodyA, pBodyB) ==
    LET key == <<pBodyA, pBodyB>>
    IN  IF key \in DOMAIN mgr.cache
        THEN [mgr |-> [mgr EXCEPT !.cache[key].was_touching = mgr.cache[key].touching],
              ret |-> key]
        ELSE [mgr |-> [mgr EXCEPT !.cache =
                          Insert(mgr.cache, key,
                                 [DefaultManifold EXCEPT
                                     !.body_a = pBodyA, !.body_b = pBodyB,
                                     !.friction = RSqrt(RMul(bs[pBodyA].friction,
                                                             bs[pBodyB].friction)),
                                     !.restitution = RMax(bs[pBodyA].restitution,
                                                          bs[pBodyB].restitution)])],
              ret |-> key]

\* ContactManager::GetOrCreate: the manager afterwards and the manifold returned
GetOrCreateM(mgr, bs, pBodyA, pBodyB) ==
    LET key == ContactKey(pBodyA, pBodyB)
    IN  IF key \in DOMAIN mgr.cache
        THEN [mgr |-> [mgr EXCEPT !.cache[key].was_touching = mgr.cache[key].touching],
              ret |-> key]
        ELSE [mgr |-> [mgr EXCEPT !.cache =
                          Insert(mgr.cache, key,
                                 [DefaultManifold EXCEPT
                                     !.body_a = pBodyA, !.body_b = pBodyB,
                                     !.friction = RSqrt(RMul(bs[pBodyA].friction,
                                                             bs[pBodyB].friction)),
                                     !.restitution = RMax(bs[pBodyA].restitution,
                                                          bs[pBodyB].restitution)])],
              ret |-> key]

\* ContactManager::Find: the manifold returned, <<>> for nullptr
FindM(mgr, pBodyA, pBodyB) ==
    IF ContactKey(pBodyA, pBodyB) \in DOMAIN mgr.cache THEN ContactKey(pBodyA, pBodyB)
    ELSE <<>>

\* ContactManager::BeginFrame without the copy into was_touching
BeginFrameNoCopyM(mgr) ==
    [mgr EXCEPT !.cache = [k \in DOMAIN mgr.cache |->
                              [mgr.cache[k] EXCEPT !.touching = FALSE]],
                !.active = <<>>]

\* ContactManager::BeginFrame
BeginFrameM(mgr) ==
    [mgr EXCEPT !.cache = [k \in DOMAIN mgr.cache |->
                              [mgr.cache[k] EXCEPT !.was_touching = mgr.cache[k].touching,
                                                   !.touching = FALSE]],
                !.active = <<>>]

\* ContactManager::EndFrame with the impulses of the manifolds kept set to zero
EndFrameResetM(mgr) ==
    LET kept == {k \in DOMAIN mgr.cache : mgr.cache[k].touching}
    IN  [mgr EXCEPT !.cache = Restrict([k \in DOMAIN mgr.cache |->
                                          [mgr.cache[k] EXCEPT
                                              !.normal_impulse = <<R(0), R(0)>>,
                                              !.tangent_impulse = <<R(0), R(0)>>]], kept),
                    !.active = mgr.active \o KeyOrder(kept)]

\* ContactManager::EndFrame keeping every manifold
EndFrameKeepM(mgr) ==
    [mgr EXCEPT !.active = mgr.active \o KeyOrder(DOMAIN mgr.cache)]

\* ContactManager::EndFrame
EndFrameM(mgr) ==
    LET kept == {k \in DOMAIN mgr.cache : mgr.cache[k].touching}
    IN  [mgr EXCEPT !.cache = Restrict(mgr.cache, kept),
                    !.active = mgr.active \o KeyOrder(kept)]

\* ContactManager::Clear
ClearM(mgr) == [mgr EXCEPT !.cache = <<>>, !.active = <<>>]

\* the pairs handed to the manager, the impulses a solver stores
PairInputs == {<<1, 2>>, <<2, 1>>, <<1, 3>>}

ImpulseInputs == {R(2)}

ManagerCall(op, args, outcome) ==
    /\ nCalls < MaxManagerCalls
    /\ nCalls' = nCalls + 1
    /\ last' = Call(op, args, outcome)
    /\ UNCHANGED <<heap, status, log, nBackward, nWrites, hist, single, walk, motors, bodies,
                   engine, phases, optim>>

BeginFrame ==
    /\ manager' = [BeginFrameM(manager) EXCEPT
                      !.marked = {}, !.plain = TRUE, !.inFrame = TRUE,
                      !.before = [k \in DOMAIN manager.cache |-> manager.cache[k].touching]]
    /\ ManagerCall("BeginFrame", <<>>, "ok")

\* GetOrCreate alone: the caller leaves the manifold as returned
GetOrCreate ==
    \E in \in PairInputs :
        LET out == GetOrCreateM(manager, bodies, in[1], in[2])
        IN  /\ manager' = [out.mgr EXCEPT !.plain = FALSE]
            /\ ManagerCall("GetOrCreate", <<in[1], in[2], out.ret>>, "ok")

\* the narrowphase of a caller on a pair found overlapping: GetOrCreate, then
\* touching = true on the manifold returned
Narrowphase ==
    \E in \in PairInputs :
        LET out == GetOrCreateM(manager, bodies, in[1], in[2])
        IN  /\ manager' = [out.mgr EXCEPT !.cache[out.ret].touching = TRUE,
                                          !.marked = @ \cup {out.ret}]
            /\ ManagerCall("Narrowphase", <<in[1], in[2], out.ret>>, "ok")

Find ==
    \E in \in PairInputs :
        /\ UNCHANGED manager
        /\ ManagerCall("Find", <<in[1], in[2], FindM(manager, in[1], in[2])>>,
                       IF FindM(manager, in[1], in[2]) = <<>> THEN "nullptr" ELSE "ok")

\* an impulse solver storing accumulated impulses into a manifold of the
\* active list
Solve ==
    \E i \in 1..Len(manager.active), v \in ImpulseInputs :
        /\ manager.active[i] \in DOMAIN manager.cache
        /\ manager' = [manager EXCEPT
                          !.cache[manager.active[i]].normal_impulse = <<v, R(0)>>,
                          !.cache[manager.active[i]].tangent_impulse = <<RNeg(v), R(0)>>]
        /\ ManagerCall("Solve", <<manager.active[i], v>>, "ok")

EndFrame ==
    /\ manager' = [EndFrameM(manager) EXCEPT !.plain = FALSE, !.inFrame = FALSE,
                                             !.before = <<>>]
    /\ ManagerCall("EndFrame", <<manager.plain, manager.marked, DOMAIN manager.cache>>, "ok")

Clear ==
    /\ manager' = [ClearM(manager) EXCEPT !.plain = FALSE, !.before = <<>>]
    /\ ManagerCall("Clear", <<>>, "ok")

\* three bodies made by the host, the third static; an empty manager
InitManager ==
    /\ InitTensors
    /\ motors = <<>>
    /\ bodies = <<NewBodyB(0, 0, 1, 1, 1), NewBodyB(1, 0, 2, 1, 1),
                  CreateStaticB(0, 0 - 1, 4, 1, R(0))>>
    /\ engine = EngineE(R(1), 1)
    /\ phases = <<>>
    /\ manager = EmptyManager
    /\ optim = <<>>
    /\ nCalls = 0
    /\ walk = IdleWalk

\* the contact manager through frames
NextManager ==
    \/ BeginFrame
    \/ GetOrCreate
    \/ Narrowphase
    \/ Find
    \/ Solve
    \/ EndFrame
    \/ Clear

SpecManager == InitManager /\ [][NextManager]_vars

(***************************************************************************)
(* ContactManifold::compute_mass.  A manifold holds point_count contact    *)
(* points (at most two), each with a position, and one normal and tangent  *)
(* for all of them; compute_mass fills normal_mass and tangent_mass.       *)
(***************************************************************************)
MaxMassCalls == 4

\* the inverse taken from the stored value whatever is_static says
InvStored(is_static, value) == RDiv(R(1), value)

\* invMass, invInertia: 0 for a static body, else 1 / value
InvOrZero(is_static, value) == IF is_static THEN R(0) ELSE RDiv(R(1), value)

\* raCrossN and the like: r x d of the arm r = (rx, ry) and the direction d
CrossM(rx, ry, d) == RSub(RMul(rx, d[2]), RMul(ry, d[1]))

\* kNormal or kTangent of contact point i along direction d
EffectiveK(m, bs, i, d) ==
    LET a == bs[m.body_a]
        b == bs[m.body_b]
        invMassA == InvOrZero(a.is_static, a.mass.data.v[1])
        invMassB == InvOrZero(b.is_static, b.mass.data.v[1])
        invInertiaA == InvOrZero(a.is_static, a.inertia.data.v[1])
        invInertiaB == InvOrZero(b.is_static, b.inertia.data.v[1])
        raCross == CrossM(RSub(m.points[i][1], a.pos.data.v[1]),
                          RSub(m.points[i][2], a.pos.data.v[2]), d)
        rbCross == CrossM(RSub(m.points[i][1], b.pos.data.v[1]),
                          RSub(m.points[i][2], b.pos.data.v[2]), d)
    IN  RAdd(RAdd(RAdd(invMassA, invMassB),
                  RMul(RMul(raCross, raCross), invInertiaA)),
             RMul(RMul(rbCross, rbCross), invInertiaB))

\* (k > 0) ? 1 / k : 0
MassOfK(k) == IF RLess(R(0), k) THEN RDiv(R(1), k) ELSE R(0)

\* ContactManifold::compute_mass
ComputeMassM(m, bs) ==
    IF m.body_a = 0 \/ m.body_b = 0 THEN m
    ELSE [m EXCEPT
             !.normal_mass = [i \in 1..2 |->
                                 IF i <= m.point_count
                                 THEN MassOfK(EffectiveK(m, bs, i, m.normal)) ELSE @[i]],
             !.tangent_mass = [i \in 1..2 |->
                                  IF i <= m.point_count
                                  THEN MassOfK(EffectiveK(m, bs, i, m.tangent)) ELSE @[i]]]

\* pairs of bodies of InitMass
MassPairs == {<<1, 2>>, <<1, 3>>, <<2, 4>>, <<3, 4>>}

\* contacts a narrowphase writes: the points, the normal and the tangent
ContactInputs ==
    {[points |-> <<<<R(0), R(0)>>>>, normal |-> <<R(0), R(1)>>, tangent |-> <<R(1), R(0)>>],
     [points |-> <<<<R(0), R(0 - 1)>>, <<R(1), R(0 - 1)>>>>,
      normal |-> <<R(0), R(1)>>, tangent |-> <<R(0 - 1), R(0)>>],
     [points |-> <<<<R(1), R(1)>>, <<R(2), R(0)>>>>,
      normal |-> <<R(1), R(0)>>, tangent |-> <<R(0), R(1)>>]}

MassCall(op, args) ==
    /\ nCalls < MaxMassCalls
    /\ nCalls' = nCalls + 1
    /\ last' = Call(op, args, "ok")
    /\ UNCHANGED <<heap, status, log, nBackward, nWrites, hist, single, walk, motors, bodies,
                   engine, phases, optim>>

\* a narrowphase finding the pair in contact: the manifold of the pair with
\* its contact points written
Collide ==
    \E in \in MassPairs, c \in ContactInputs :
        LET out == GetOrCreateM(manager, bodies, in[1], in[2])
        IN  /\ manager' = [out.mgr EXCEPT !.cache[out.ret].touching = TRUE,
                                          !.cache[out.ret].point_count = Len(c.points),
                                          !.cache[out.ret].points = c.points,
                                          !.cache[out.ret].normal = c.normal,
                                          !.cache[out.ret].tangent = c.tangent]
            /\ MassCall("Collide", <<in[1], in[2], out.ret>>)

ComputeMass ==
    \E key \in DOMAIN manager.cache :
        /\ manager' = [manager EXCEPT !.cache[key] = ComputeMassM(@, bodies)]
        /\ MassCall("compute_mass", <<key>>)

\* two bodies that move and two static ones, the second of them made by
\* setting is_static on a body of mass 3
InitMass ==
    /\ InitTensors
    /\ motors = <<>>
    /\ bodies = <<NewBodyB(0, 0, 1, 1, 1), NewBodyB(1, 0, 2, 1, 1),
                  CreateStaticB(0, 0 - 1, 4, 1, R(0)),
                  [NewBodyB(2, 0 - 1, 3, 2, 1) EXCEPT !.is_static = TRUE]>>
    /\ engine = EngineE(R(1), 1)
    /\ phases = <<>>
    /\ manager = EmptyManager
    /\ optim = <<>>
    /\ nCalls = 0
    /\ walk = IdleWalk

NextMass ==
    \/ Collide
    \/ ComputeMass

SpecMass == InitMass /\ [][NextMass]_vars

(***************************************************************************)
(* Body::ApplyMotorForces.  A motor keeps the default angle of motor.h:26, *)
(* pi / 2 (thrust along the body's +y), whose cosine is taken as 0 and     *)
(* sine as 1; the body's rotation goes through RCos and RSin.              *)
(***************************************************************************)
MaxThrustCalls == 2

\* every attached motor taken as thrusting
ThrustingAny(motor) == TRUE

\* the motors the loop does not skip: if (pMotor->thrust <= 0) continue
Thrusting(motor) == ~(motor.thrust <= 0)

\* (worldFx, worldFy) of a motor on a body
MotorForce(body, motor) ==
    LET bodyRot == GetT(body.rotation, 0, 0)
        cosR == RCos(bodyRot)
        sinR == RSin(bodyRot)
        localFx == RMul(R(0), R(motor.thrust))
        localFy == RMul(R(1), R(motor.thrust))
    IN  <<RSub(RMul(cosR, localFx), RMul(sinR, localFy)),
          RAdd(RMul(sinR, localFx), RMul(cosR, localFy))>>

\* torque = rx * worldFy - ry * worldFx of a motor on a body
MotorTorque(body, motor) ==
    LET bodyRot == GetT(body.rotation, 0, 0)
        cosR == RCos(bodyRot)
        sinR == RSin(bodyRot)
        rx == RSub(RMul(cosR, R(motor.local_x)), RMul(sinR, R(motor.local_y)))
        ry == RAdd(RMul(sinR, R(motor.local_x)), RMul(cosR, R(motor.local_y)))
        world == MotorForce(body, motor)
    IN  RSub(RMul(rx, world[2]), RMul(ry, world[1]))

\* the loop over body.motors from position i on; terms lists, for every
\* ApplyForce and ApplyTorque pair made, the motor and the values applied
RECURSIVE MotorLoop(_, _, _, _)
MotorLoop(body, ms, i, terms) ==
    IF i > Len(body.motors) THEN [body |-> body, terms |-> terms]
    ELSE IF ~Thrusting(ms[body.motors[i]]) THEN MotorLoop(body, ms, i + 1, terms)
    ELSE LET force == NewVectorT(MotorForce(body, ms[body.motors[i]]), FALSE)
             torque == NewVectorT(<<MotorTorque(body, ms[body.motors[i]])>>, FALSE)
             b1 == ApplyForceB(body, BodyFrame(body) \o <<force>>, 9)
             b2 == ApplyTorqueB(b1, BodyFrame(b1) \o <<torque>>, 9)
         IN  MotorLoop(b2, ms, i + 1,
                       Append(terms, [motor |-> body.motors[i],
                                      force |-> force.data.v,
                                      torque |-> torque.data.v[1]]))

\* Body::ApplyMotorForces
ApplyMotorForcesB(body, ms) == MotorLoop(body, ms, 1, <<>>)

ApplyMotorForces ==
    \E b \in 1..Len(bodies) :
        LET out == ApplyMotorForcesB(bodies[b], motors)
        IN  /\ nCalls < MaxThrustCalls
            /\ nCalls' = nCalls + 1
            /\ bodies' = [bodies EXCEPT ![b] = out.body]
            /\ last' = Call("ApplyMotorForces", <<b, out.terms>>, "ok")
            /\ UNCHANGED <<heap, status, log, nBackward, nWrites, hist, single, walk, motors,
                           engine, phases, manager, optim>>

\* two motors apart from each other and a body to carry them
InitThrust ==
    /\ InitTensors
    /\ motors = <<NewMotorM(1, 0, 1, 1, 1, 2), NewMotorM(0 - 2, 1, 1, 1, 1, 1)>>
    /\ bodies = <<NewBodyB(0, 0, 1, 4, 4)>>
    /\ InitWorld

NextThrust ==
    \/ AddMotor
    \/ SetThrust
    \/ ApplyMotorForces

SpecThrust == InitThrust /\ [][NextThrust]_vars

(***************************************************************************)
(* Tensor::Backward step by step.  walk holds the locals of one call: the  *)
(* position (pc), the work stack, the sets visited and expanded, topo, and *)
(* the index k into topo of the reverse iteration.  One action is one      *)
(* iteration of the while loop or of the closure loop.                     *)
(***************************************************************************)
MaxWalkNodes == 2

\* an operator's result has at most two children
MaxChildren == 2

\* a visited node left on the stack
KeepVisitedW(w) == w

\* if (visited.count(pNode)) { stack.pop_back(); continue; }
PopVisitedW(w) == [w EXCEPT !.stack = Pop(@)]

\* the node on top was expanded before: visited, appended to topo, popped
EmitW(w) ==
    [w EXCEPT !.visited = @ \cup {Last(w.stack)},
              !.topo = Append(@, Last(w.stack)),
              !.stack = Pop(@)]

\* the node on top is expanded: its children not yet visited are pushed
ExpandW(h, w) ==
    [w EXCEPT !.expanded = @ \cup {Last(w.stack)},
              !.stack = @ \o SelectSeq(h[Last(w.stack)].children,
                                       LAMBDA pChild : pChild \notin w.visited)]

WalkStep(w) ==
    /\ walk' = w
    /\ UNCHANGED <<status, last, log, nBackward, nWrites, hist, single, motors, bodies,
                   engine, phases, manager, optim, nCalls>>

\* the call: the requires-grad test, the seed, stack.push_back(this)
BackwardBegin ==
    \E root \in 1..Len(heap) :
        /\ walk.pc = "idle"
        /\ IF ~heap[root].rg
           THEN /\ UNCHANGED heap
                /\ WalkStep([walk EXCEPT !.pc = "done", !.root = root])
           ELSE /\ heap' = [heap EXCEPT ![root].grad = SeedGrad(heap[root])]
                /\ WalkStep([walk EXCEPT !.pc = "sort", !.root = root,
                                         !.stack = <<root>>])

TopoPop ==
    /\ walk.pc = "sort"
    /\ walk.stack # <<>>
    /\ Last(walk.stack) \in walk.visited
    /\ UNCHANGED heap
    /\ WalkStep(PopVisitedW(walk))

TopoEmit ==
    /\ walk.pc = "sort"
    /\ walk.stack # <<>>
    /\ Last(walk.stack) \notin walk.visited
    /\ Last(walk.stack) \in walk.expanded
    /\ UNCHANGED heap
    /\ WalkStep(EmitW(walk))

TopoExpand ==
    /\ walk.pc = "sort"
    /\ walk.stack # <<>>
    /\ Last(walk.stack) \notin walk.visited
    /\ Last(walk.stack) \notin walk.expanded
    /\ UNCHANGED heap
    /\ WalkStep(ExpandW(heap, walk))

\* the while loop ends; the reverse iteration starts at topo.rbegin()
TopoDone ==
    /\ walk.pc = "sort"
    /\ walk.stack = <<>>
    /\ UNCHANGED heap
    /\ WalkStep([walk EXCEPT !.pc = "closures", !.k = Len(walk.topo)])

\* one iteration of the backward pass: the closure of the node, if any
ClosureCall ==
    /\ walk.pc = "closures"
    /\ walk.k >= 1
    /\ heap' = IF heap[walk.topo[walk.k]].fn.kind # "none"
               THEN ApplyFn(heap, walk.topo[walk.k], R(0)) ELSE heap
    /\ WalkStep([walk EXCEPT !.k = @ - 1])

BackwardReturn ==
    /\ walk.pc = "closures"
    /\ walk.k = 0
    /\ UNCHANGED heap
    /\ WalkStep([walk EXCEPT !.pc = "done"])

\* the lists of children an operator can store, over n addresses
ChildLists(n) ==
    UNION {[1..len -> 1..n] : len \in 0..MaxChildren}

\* a 1x1 tensor requiring grad with the children given and the closure of
\* the operator that stored them
WalkNode(children) ==
    [NewVectorT(<<R(1)>>, TRUE) EXCEPT
        !.children = children,
        !.fn = IF Len(children) = 2 THEN Fn("add", children[1], children[2])
               ELSE IF Len(children) = 1 THEN Fn("transpose", children[1], 0)
               ELSE NoFn]

\* every graph over MaxWalkNodes tensors, among them a tensor that is its
\* own child (a = a + b) and a tensor listed twice (a + a)
InitWalk ==
    /\ heap \in {[a \in 1..MaxWalkNodes |-> WalkNode(g[a])] :
                    g \in [1..MaxWalkNodes -> ChildLists(MaxWalkNodes)]}
    /\ status = "running"
    /\ last = Call("none", <<>>, "ok")
    /\ log = <<>>
    /\ nBackward = 0
    /\ nWrites = 0
    /\ hist = <<>>
    /\ single = <<>>
    /\ motors = <<>>
    /\ bodies = <<>>
    /\ InitWorld

NextWalk ==
    \/ BackwardBegin
    \/ TopoPop
    \/ TopoEmit
    \/ TopoExpand
    \/ TopoDone
    \/ ClosureCall
    \/ BackwardReturn

\* a call once started runs on: the loops are sequential code
SpecWalk == InitWalk /\ [][NextWalk]_vars /\ WF_vars(NextWalk)

(***************************************************************************)
(* Optimizers.  optim holds one optimizer: its kind, m_Parameters (heap    *)
(* addresses), the hyperparameters, m_T and the moment estimates m_M, m_V  *)
(* (empty for SGD).  The hyperparameters are small rationals; with         *)
(* beta2 = 0 the bias-corrected second moment is the square of the         *)
(* gradient and its square root is exact.                                  *)
(***************************************************************************)
\* std::pow(x, t) for an int t >= 0
RECURSIVE RPow(_, _)
RPow(x, t) == IF t = 0 THEN R(1) ELSE CHOOSE r \in {RMul(x, y) : y \in {RPow(x, t - 1)}} : TRUE

\* array().sqrt()
MSqrt(m) == Mat(m.rows, m.cols, [k \in 1..Size(m) |-> RSqrt(m.v[k])])

\* Optimizer::Optimizer, SGD::SGD
NewSGD(h, params, lr) ==
    [kind |-> "SGD", params |-> params, lr |-> lr, beta1 |-> R(0), beta2 |-> R(0),
     epsilon |-> R(0), weightDecay |-> R(0), t |-> 0, m |-> <<>>, v |-> <<>>]

\* Adam::Adam
NewAdam(h, params, lr, beta1, beta2, epsilon) ==
    [kind |-> "Adam", params |-> params, lr |-> lr, beta1 |-> beta1, beta2 |-> beta2,
     epsilon |-> epsilon, weightDecay |-> R(0), t |-> 0,
     m |-> [i \in 1..Len(params) |-> Zeros(h[params[i]].data.rows, h[params[i]].data.cols)],
     v |-> [i \in 1..Len(params) |-> Zeros(h[params[i]].data.rows, h[params[i]].data.cols)]]

\* AdamW::AdamW
NewAdamW(h, params, lr, beta1, beta2, epsilon, weightDecay) ==
    [NewAdam(h, params, lr, beta1, beta2, epsilon) EXCEPT
        !.kind = "AdamW", !.weightDecay = weightDecay]

\* a skip test that looks at the gradient only
SkipsUnallocated(t) == Size(t.grad) = 0

\* the test before "continue" in the loops of Step
Skips(t) == ~t.rg \/ Size(t.grad) = 0

\* the body of the loop of SGD::Step for parameter i
SGDStepOne(st, i) ==
    LET p == st.o.params[i]
    IN  IF Skips(st.h[p]) THEN st
        ELSE [st EXCEPT !.h[p].data = MSub(st.h[p].data, MScale(st.h[p].grad, st.o.lr))]

\* m_Data.array() -= lr * mHat.array() / (vHat.array().sqrt() + epsilon) with
\* the moment estimates m, v just stored
AdamData(data, o, m, v) ==
    LET mHat == MDivS(m, RSub(R(1), RPow(o.beta1, o.t)))
        vHat == MDivS(v, RSub(R(1), RPow(o.beta2, o.t)))
    IN  MSub(data, MQuot(MScale(mHat, o.lr), MAddS(MSqrt(vHat), o.epsilon)))

\* the moment updates and the parameter update of Adam::Step and AdamW::Step
\* for parameter i, from the data given
AdamUpdate(st, i, data) ==
    LET p == st.o.params[i]
        g == st.h[p].grad
    IN  CHOOSE r \in {[st EXCEPT !.o.m[i] = m, !.o.v[i] = v,
                                 !.h[p].data = AdamData(data, st.o, m, v)] :
                      m \in {MAdd(MScale(st.o.m[i], st.o.beta1),
                                  MScale(g, RSub(R(1), st.o.beta1)))},
                      v \in {MAdd(MScale(st.o.v[i], st.o.beta2),
                                  MScale(MHad(g, g), RSub(R(1), st.o.beta2)))}} : TRUE

\* the body of the loop of Adam::Step for parameter i
AdamStepOne(st, i) ==
    IF Skips(st.h[st.o.params[i]]) THEN st
    ELSE AdamUpdate(st, i, st.h[st.o.params[i]].data)

\* AdamW::Step with the weight decay applied after the Adam update
AdamWStepLate(st, i) ==
    IF Skips(st.h[st.o.params[i]]) THEN st
    ELSE CHOOSE r \in {IF RLess(R(0), s.o.weightDecay)
                       THEN [s EXCEPT !.h[s.o.params[i]].data =
                                MSub(@, MScale(@, RMul(s.o.lr, s.o.weightDecay)))]
                       ELSE s :
                       s \in {AdamUpdate(st, i, st.h[st.o.params[i]].data)}} : TRUE

\* the body of the loop of AdamW::Step for parameter i
AdamWStepOne(st, i) ==
    LET data == st.h[st.o.params[i]].data
    IN  IF Skips(st.h[st.o.params[i]]) THEN st
        ELSE AdamUpdate(st, i,
                        IF RLess(R(0), st.o.weightDecay)
                        THEN MSub(data, MScale(data, RMul(st.o.lr, st.o.weightDecay)))
                        ELSE data)

\* the loop over m_Parameters from parameter i on
RECURSIVE StepLoop(_, _)
StepLoop(st, i) ==
    IF i > Len(st.o.params) THEN st
    ELSE CHOOSE r \in {StepLoop(s, i + 1) :
                       s \in {CASE st.o.kind = "SGD" -> SGDStepOne(st, i)
                                [] st.o.kind = "Adam" -> AdamStepOne(st, i)
                                [] st.o.kind = "AdamW" -> AdamWStepOne(st, i)}} : TRUE

\* SGD::Step, Adam::Step, AdamW::Step: the heap and the optimizer afterwards
StepO(h, o) ==
    StepLoop([h |-> h, o |-> IF o.kind = "SGD" THEN o ELSE [o EXCEPT !.t = o.t + 1]], 1)

\* Optimizer::ZeroGrad
ZeroGradO(h, o) ==
    [a \in 1..Len(h) |->
        IF \E i \in 1..Len(o.params) : o.params[i] = a THEN ZeroGradT(h[a]) ELSE h[a]]

\* parameter lists, hyperparameters (lr, beta1, beta2, epsilon, weightDecay)
\* and gradients of a loss
ParamLists == {<<1, 2, 3>>, <<3, 2, 1>>}

HyperInputs == {<<RNorm(1, 2), RNorm(1, 2), R(0), R(1), R(0)>>,
                <<RNorm(1, 2), RNorm(1, 2), R(0), R(1), RNorm(1, 2)>>,
                <<RNorm(1, 2), RNorm(1, 2), R(0), R(1), RNorm(0 - 1, 2)>>}

GradInputs == {R(2)}

\* the optimizers a host constructs over the parameters of h
Optimizers(h) ==
    {NewSGD(h, ps, hy[1]) : ps \in ParamLists, hy \in HyperInputs}
    \cup {NewAdam(h, ps, hy[1], hy[2], hy[3], hy[4]) : ps \in ParamLists, hy \in HyperInputs}
    \cup {NewAdamW(h, ps, hy[1], hy[2], hy[3], hy[4], hy[5]) :
              ps \in ParamLists, hy \in HyperInputs}

OptimCall(op, args) ==
    /\ nCalls < MaxOptimCalls
    /\ nCalls' = nCalls + 1
    /\ last' = Call(op, args, "ok")
    /\ UNCHANGED <<status, log, nBackward, nWrites, hist, single, walk, motors, bodies,
                   engine, phases, manager>>

OptimStep ==
    \E k \in 1..Len(optim) :
        /\ heap' = StepO(heap, optim[k]).h
        /\ optim' = [optim EXCEPT ![k] = StepO(heap, optim[k]).o]
        /\ OptimCall("Step", <<k>>)

OptimZeroGrad ==
    \E k \in 1..Len(optim) :
        /\ heap' = ZeroGradO(heap, optim[k])
        /\ UNCHANGED optim
        /\ OptimCall("ZeroGrad", <<k>>)

\* a gradient stored into a parameter (by a backward pass or by the host),
\* or its gradient released
ParamSetGrad ==
    \E a \in Addrs, g \in GradInputs, empty \in BOOLEAN :
        /\ heap' = [heap EXCEPT ![a] =
                       SetGradT(heap[a],
                                IF empty THEN EmptyMat
                                ELSE Const(heap[a].data.rows, heap[a].data.cols, g))]
        /\ UNCHANGED optim
        /\ OptimCall("SetGrad", <<a>>)

ParamSetRequiresGrad ==
    \E a \in Addrs, rg \in BOOLEAN :
        /\ heap' = [heap EXCEPT ![a] = SetRequiresGradT(heap[a], rg)]
        /\ UNCHANGED optim
        /\ OptimCall("SetRequiresGrad", <<a>>)

\* three parameters: one trainable with a gradient, one trainable whose
\* gradient was released, one frozen after it received a gradient; an
\* optimizer just constructed over them
InitOptim ==
    /\ heap = <<SetGradT(NewVectorT(<<R(1)>>, TRUE), Const(1, 1, R(2))),
                SetGradT(NewVectorT(<<R(2), R(3)>>, TRUE), EmptyMat),
                SetRequiresGradT(SetGradT(NewVectorT(<<R(4)>>, TRUE), Const(1, 1, R(1))),
                                 FALSE)>>
    /\ status = "running"
    /\ last = Call("none", <<>>, "ok")
    /\ log = <<>>
    /\ nBackward = 0
    /\ nWrites = 0
    /\ hist = <<>>
    /\ single = <<>>
    /\ motors = <<>>
    /\ bodies = <<>>
    /\ engine = EngineE(R(1), 1)
    /\ phases = <<>>
    /\ manager = EmptyManager
    /\ optim \in {<<o>> : o \in Optimizers(heap)}
    /\ nCalls = 0
    /\ walk = IdleWalk

\* an optimizer in a training loop
NextOptim ==
    \/ OptimStep
    \/ OptimZeroGrad
    \/ ParamSetGrad
    \/ ParamSetRequiresGrad

SpecOptim == InitOptim /\ [][NextOptim]_vars

(***************************************************************************)
(* An Adam and an AdamW optimizer side by side: optim[1] is the Adam over  *)
(* the parameters at addresses 1..3, optim[2] the AdamW over their copies  *)
(* at 4..6, with equal lr, beta1, beta2, epsilon; every call is made on    *)
(* both.                                                                   *)
(***************************************************************************)
\* the copy of parameter a
Twin(a) == a + 3

PairCall(op, args) ==
    /\ nCalls < MaxPairCalls
    /\ nCalls' = nCalls + 1
    /\ last' = Call(op, args, "ok")
    /\ UNCHANGED <<status, log, nBackward, nWrites, hist, single, walk, motors, bodies,
                   engine, phases, manager>>

PairStep ==
    /\ \E s1 \in {StepO(heap, optim[1])} :
          \E s2 \in {StepO(s1.h, optim[2])} :
              /\ heap' = s2.h
              /\ optim' = <<s1.o, s2.o>>
    /\ PairCall("Step", <<>>)

PairZeroGrad ==
    /\ heap' = ZeroGradO(ZeroGradO(heap, optim[1]), optim[2])
    /\ UNCHANGED optim
    /\ PairCall("ZeroGrad", <<>>)

PairSetGrad ==
    \E a \in 1..3, g \in GradInputs, empty \in BOOLEAN :
        /\ heap' = [heap EXCEPT
                       ![a] = SetGradT(heap[a],
                                       IF empty THEN EmptyMat
                                       ELSE Const(heap[a].data.rows, heap[a].data.cols, g)),
                       ![Twin(a)] = SetGradT(heap[Twin(a)],
                                       IF empty THEN EmptyMat
                                       ELSE Const(heap[a].data.rows, heap[a].data.cols, g))]
        /\ UNCHANGED optim
        /\ PairCall("SetGrad", <<a>>)

PairSetRequiresGrad ==
    \E a \in 1..3, rg \in BOOLEAN :
        /\ heap' = [heap EXCEPT ![a] = SetRequiresGradT(heap[a], rg),
                                ![Twin(a)] = SetRequiresGradT(heap[Twin(a)], rg)]
        /\ UNCHANGED optim
        /\ PairCall("SetRequiresGrad", <<a>>)

\* the three parameters of InitOptim and their copies; an Adam and an AdamW
\* just constructed
InitPair ==
    /\ heap = [a \in 1..6 |->
                  <<SetGradT(NewVectorT(<<R(1)>>, TRUE), Const(1, 1, R(2))),
                    SetGradT(NewVectorT(<<R(2), R(3)>>, TRUE), EmptyMat),
                    SetRequiresGradT(SetGradT(NewVectorT(<<R(4)>>, TRUE),
                                              Const(1, 1, R(1))), FALSE)>>[((a - 1) % 3) + 1]]
    /\ status = "running"
    /\ last = Call("none", <<>>, "ok")
    /\ log = <<>>
    /\ nBackward = 0
    /\ nWrites = 0
    /\ hist = <<>>
    /\ single = <<>>
    /\ motors = <<>>
    /\ bodies = <<>>
    /\ engine = EngineE(R(1), 1)
    /\ phases = <<>>
    /\ manager = EmptyManager
    /\ optim \in {<<NewAdam(heap, ps, hy[1], hy[2], hy[3], hy[4]),
                    NewAdamW(heap, [i \in 1..Len(ps) |-> Twin(ps[i])],
                             hy[1], hy[2], hy[3], hy[4], hy[5])>> :
                     ps \in ParamLists, hy \in HyperInputs}
    /\ nCalls = 0
    /\ walk = IdleWalk

\* the two optimizers in one training loop
NextPair ==
    \/ PairStep
    \/ PairZeroGrad
    \/ PairSetGrad
    \/ PairSetRequiresGrad

SpecPair == InitPair /\ [][NextPair]_vars

(***************************************************************************)
(* Properties.                                                             *)
(***************************************************************************)
Children(h, n) == {h[n].children[k] : k \in 1..Len(h[n].children)}

\* the nodes reachable from the nodes of S through child lists
RECURSIVE ReachFrom(_, _)
ReachFrom(h, S) ==
    LET T == S \cup UNION {Children(h, n) : n \in S}
    IN  IF T = S THEN S ELSE ReachFrom(h, T)

Reach(h, root) == ReachFrom(h, {root})

HasFn(h, n) == h[n].fn.kind # "none"

Positions(sq, x) == {k \in 1..Len(sq) : sq[k] = x}

RanBackward == status = "running" /\ last.op = "Backward" /\ last.outcome = "ok"

\* C1: Backward on a root that requires grad walks every node reachable
\* from the root exactly once (invoking its closure, if it has one) and
\* nothing else, and it reaches a node only after every reachable node that
\* lists it as a child.
C1_ReverseTopologicalOnce ==
    RanBackward =>
        LET reach == Reach(heap, last.args[1])
        IN  /\ \A n \in reach : Cardinality(Positions(log, n)) = 1
            /\ \A k \in 1..Len(log) : log[k] \in reach
            /\ \A i \in 1..Len(log), j \in 1..Len(log) :
                   log[j] \in Children(heap, log[i]) => i < j

\* a backward pass over a graph in which one node is a child of two parents,
\* one of which has a closure of its own and is the other's first child, so
\* that the shared node lies on the traversal stack twice
C1_Witness ==
    /\ RanBackward
    /\ \E n \in Reach(heap, last.args[1]) :
          \E p \in Reach(heap, last.args[1]) :
              /\ p # last.args[1]
              /\ HasFn(heap, p)
              /\ n \in Children(heap, p)
              /\ heap[last.args[1]].children = <<p, n>>

\* the graph under r has no closure that fails an Eigen size check
SoundGraph(h, r) == \A n \in Reach(h, r) : FnSound(h, n)

Leaves(h, r) == {l \in Reach(h, r) : l # r /\ h[l].children = <<>>}

\* C2: n Backward calls on one root, from zeroed gradients and with no
\* ZeroGrad between, leave every leaf's gradient n times what the first call
\* left.
C2_LeafGradTimesN ==
    (status = "running" /\ hist # <<>> /\ hist[1] # 0 /\ SoundGraph(heap, hist[1])) =>
        \A l \in Leaves(heap, hist[1]) :
            heap[l].grad = MScale(single[l], R(Len(hist)))

BinaryOps == {"Add", "Sub", "Mul", "Div", "Matmul"}

UnaryOps == {"Scale", "Transpose", "Sum", "Mean", "Select", "Reshape"}

\* the tensor operands of the last operation
Operands ==
    IF last.op \in BinaryOps THEN <<last.args[1], last.args[2]>>
    ELSE IF last.op \in UnaryOps THEN <<last.args[1]>>
    ELSE <<>>

\* C3: the result of an operation requires grad iff some operand does; then
\* its child list is exactly the operands that require grad and it has a
\* closure; otherwise it has no children and no closure.
C3_GraphConstruction ==
    (status = "running" /\ last.op \in BinaryOps \cup UnaryOps /\ last.outcome = "ok") =>
        LET res == heap[Len(heap)]
            requiring == SelectSeq(Operands, LAMBDA o : heap[o].rg)
        IN  /\ res.rg <=> requiring # <<>>
            /\ res.rg => (res.children = requiring /\ res.fn.kind # "none")
            /\ ~res.rg => (res.children = <<>> /\ res.fn.kind = "none")

\* C4: an allocated gradient has the shape of the data.
C4_GradShapeIsDataShape ==
    \A i \in Addrs : Size(heap[i].grad) > 0 => SameShape(heap[i].grad, heap[i].data)

\* C5: Select with an index out of range and Reshape with a wrong element
\* count raise an error to the caller and return no tensor.
C5_SelectReshapeRaise ==
    /\ (last.op = "Select"
          /\ (last.args[2] < 0 \/ last.args[2] >= Size(heap[last.args[1]].data)))
       => last.outcome = "throw"
    /\ (last.op = "Reshape"
          /\ last.args[2] * last.args[3] # Size(heap[last.args[1]].data))
       => last.outcome = "throw"

\* the operand shapes the operation is specified to accept
Compatible ==
    LET a == heap[last.args[1]].data
        b == heap[last.args[2]].data
    IN  CASE last.op \in {"Add", "Sub"} -> SameShape(a, b)
          [] last.op \in {"Mul", "Div"} -> SameShape(a, b) \/ (b.rows = 1 /\ b.cols = 1)
          [] last.op = "Matmul" -> a.cols = b.rows

\* C6: an elementwise binary operation or Matmul on incompatible shapes
\* raises an error to the caller and produces no result; on compatible
\* shapes (equal, or a (1,1) right operand of * and /) it produces one.
C6_ShapeMismatchRaises ==
    last.op \in BinaryOps =>
        /\ ~Compatible => last.outcome = "throw"
        /\ Compatible => last.outcome = "ok"

\* C7: Backward on a tensor that does not require grad changes no tensor
\* and runs no closure.
C7_BackwardNoGradNoOp ==
    [][(last'.op = "Backward" /\ ~heap[last'.args[1]].rg)
          => (heap' = heap /\ log' = <<>> /\ status' = status)]_vars

C7_Witness ==
    /\ last.op = "Backward"
    /\ last.outcome = "warning"
    /\ ~heap[last.args[1]].rg
    /\ \E i \in Addrs : heap[i].rg

\* C8: a.Mean().Backward() from zeroed gradients leaves every element of
\* a's gradient equal to 1/N, N the number of elements of a.
C8_MeanGradOneOverN ==
    (RanBackward /\ hist = <<last.args[1]>> /\ heap[last.args[1]].fn.kind = "mean") =>
        LET a == heap[last.args[1]].fn.a
        IN  heap[a].rg =>
                \A k \in 1..Size(heap[a].grad) :
                    heap[a].grad.v[k] = RDiv(R(1), R(Size(heap[a].data)))

\* the closed rectangles of two motors share a point (coordinates doubled)
FootprintsIntersect(m1, m2) ==
    /\ 2 * m1.local_x - m1.width <= 2 * m2.local_x + m2.width
    /\ 2 * m2.local_x - m2.width <= 2 * m1.local_x + m1.width
    /\ 2 * m1.local_y - m1.height <= 2 * m2.local_y + m2.height
    /\ 2 * m2.local_y - m2.height <= 2 * m1.local_y + m1.height

Attached(b) == {bodies[b].motors[k] : k \in 1..Len(bodies[b].motors)}

NoOverlapOnBody ==
    \A b \in 1..Len(bodies) :
        \A i \in 1..Len(bodies[b].motors), j \in 1..Len(bodies[b].motors) :
            i # j => ~FootprintsIntersect(motors[bodies[b].motors[i]],
                                          motors[bodies[b].motors[j]])

\* C9: AddMotor of a motor whose footprint overlaps an attached motor's
\* throws and leaves the body (list, mass, inertia) and the motor's parent
\* as they were; no two motors attached to a body ever overlap.
C9_AddMotorRejectsOverlap ==
    /\ []NoOverlapOnBody
    /\ [][(/\ last'.op = "AddMotor"
           /\ \E e \in Attached(last'.args[1]) :
                  FootprintsIntersect(motors[e], motors[last'.args[2]]))
          => (last'.outcome = "throw" /\ bodies' = bodies /\ motors' = motors)]_vars

\* a rejected attachment of a motor that another body already holds
C9_Witness ==
    /\ last.op = "AddMotor"
    /\ last.outcome = "throw"
    /\ motors[last.args[2]].parent \notin {0, last.args[1]}
    /\ Len(bodies[last.args[1]].motors) >= 1

\* what SetThrust(t) stores according to the three cases
ThrustCases ==
    last.op = "SetThrust" =>
        LET motor == motors[last.args[1]]
            t == last.args[2]
        IN  /\ (0 <= t /\ t <= motor.max_thrust) => motor.thrust = t
            /\ t < 0 => motor.thrust = 0
            /\ t > motor.max_thrust => motor.thrust = motor.max_thrust

StateTensors(body) == <<body.pos, body.vel, body.rotation, body.ang_vel>>

StateData(body) == [k \in 1..4 |-> StateTensors(body)[k].data]

AtRest(body) == body.vel.data = Zeros(2, 1) /\ body.ang_vel.data = Zeros(1, 1)

\* C11: the state tensors pos, vel, rotation and ang_vel of every body, made
\* by the constructor or by the static factory with any initial rotation,
\* require grad, after any force applications and steps.
C11_StateTensorsRequireGrad ==
    \A b \in 1..Len(bodies) : \A k \in 1..4 : StateTensors(bodies[b])[k].rg

\* C12: no step of the program changes the position, velocity, rotation or
\* angular velocity of a static body.
C12_StaticBodyImmovable ==
    [][\A b \in 1..Len(bodies) :
          bodies[b].is_static => StateData(bodies'[b]) = StateData(bodies[b])]_vars

\* C13: Body::Step(F, tau, dt) is semi-implicit Euler: the velocity grows by
\* F / m * dt and the position by the NEW velocity times dt, the angular
\* velocity by tau / I * dt and the rotation by the new angular velocity
\* times dt; from rest with F = 0 and tau = 0 nothing moves; from rest with
\* unit mass the velocity grows by F * dt and the position by F * dt * dt.
C13_SemiImplicitEuler ==
    [][last'.op = "Step" =>
          LET b == last'.args[1]
              F == last'.args[2]
              tau == last'.args[3]
              dt == last'.args[4]
              old == bodies[b]
              new == bodies'[b]
              m == old.mass.data.v[1]
              I == old.inertia.data.v[1]
              v1(k) == RAdd(old.vel.data.v[k], RMul(RDiv(F[k], m), dt))
              w1 == RAdd(old.ang_vel.data.v[1], RMul(RDiv(tau, I), dt))
          IN  /\ \A k \in 1..2 :
                    /\ new.vel.data.v[k] = v1(k)
                    /\ new.pos.data.v[k] = RAdd(old.pos.data.v[k], RMul(v1(k), dt))
              /\ new.ang_vel.data.v[1] = w1
              /\ new.rotation.data.v[1] = RAdd(old.rotation.data.v[1], RMul(w1, dt))
              /\ (AtRest(old) /\ F = <<R(0), R(0)>> /\ tau = R(0)) =>
                     StateData(new) = StateData(old)
              /\ (AtRest(old) /\ m = R(1)) =>
                     \A k \in 1..2 :
                         /\ new.vel.data.v[k] = RMul(F[k], dt)
                         /\ RSub(new.pos.data.v[k], old.pos.data.v[k]) =
                                RMul(RMul(F[k], dt), dt)]_vars

\* a body of mass other than one, already moving, stepped under a force and
\* a torque with a step other than one
C13_Witness ==
    /\ last.op = "Step"
    /\ last.args[2] # <<R(0), R(0)>>
    /\ last.args[3] # R(0)
    /\ last.args[4] # R(1)
    /\ bodies[last.args[1]].mass.data.v[1] # R(1)
    /\ bodies[last.args[1]].vel.data.v[1] \notin {R(0), RMul(RDiv(last.args[2][1], bodies[last.args[1]].mass.data.v[1]), last.args[4])}

\* what the substep loop is to do to one body, in order
ClaimedPhases(step_i, b) ==
    <<<<step_i, b, "gravity">>, <<step_i, b, "contact">>, <<step_i, b, "motors">>,
      <<step_i, b, "integrate">>>>

\* the claimed phases of the loops from body k of substep step_i on
RECURSIVE ClaimedLoop(_, _, _)
ClaimedLoop(eng, step_i, k) ==
    IF step_i > eng.substeps THEN <<>>
    ELSE IF k > Len(eng.bodies) THEN ClaimedLoop(eng, step_i + 1, 1)
    ELSE ClaimedPhases(step_i, eng.bodies[k]) \o ClaimedLoop(eng, step_i, k + 1)

\* C14: Engine::update runs its N substeps, and in each substep, for each
\* body in registration order, applies gravity, runs the contact kernel,
\* applies the motor forces and integrates, in this order.
C14_UpdatePhaseOrder ==
    last.op = "update" => phases = ClaimedLoop(engine, 1, 1)

\* C15: the broadphase never discards a segment the narrowphase would count
\* as a contact: a corner of a registered body under the line of a segment,
\* with its projection inside the relaxed bounds, has the segment among the
\* body's candidates.
C15_BroadphaseComplete ==
    \A k \in 1..Len(engine.bodies) : \A i \in 1..Len(engine.static_geometry) :
        (\E c \in 1..4 : InContact(GetCornersB(bodies[engine.bodies[k]])[c],
                                   engine.static_geometry[i]))
            => \E j \in 1..Len(Candidates(bodies[engine.bodies[k]], engine.static_geometry)) :
                   Candidates(bodies[engine.bodies[k]], engine.static_geometry)[j] = i

Cached == DOMAIN manager.cache

\* the impulses of a manifold
Impulses(m) == <<m.normal_impulse, m.tangent_impulse>>

\* C16: BeginFrame sets was_touching of every cached manifold to its touching
\* flag of before, sets touching to false and clears the active list; the
\* set of cached manifolds is unchanged.
C16_BeginFrame ==
    [][last'.op = "BeginFrame" =>
          /\ DOMAIN manager'.cache = DOMAIN manager.cache
          /\ \A k \in DOMAIN manager.cache :
                /\ manager'.cache[k].was_touching = manager.cache[k].touching
                /\ manager'.cache[k].touching = FALSE
          /\ manager'.active = <<>>]_vars

\* BeginFrame on a cache with a manifold that was touching and a non-empty
\* active list
C16_Witness ==
    /\ last.op = "BeginFrame"
    /\ \E k \in Cached : manager.cache[k].was_touching /\ ~manager.cache[k].touching
    /\ \E k \in Cached : Impulses(manager.cache[k]) # Impulses(DefaultManifold)

\* C17: after BeginFrame, any number of narrowphase calls (GetOrCreate with
\* the touching mark) and EndFrame, the cache holds exactly the manifolds
\* marked touching in that frame, and the active list holds each of them
\* exactly once.
C17_EndFrameKeepsMarked ==
    [][(last'.op = "EndFrame" /\ manager.plain) =>
          /\ DOMAIN manager'.cache = manager.marked
          /\ \A k \in manager.marked : Cardinality(Positions(manager'.active, k)) = 1
          /\ \A i \in 1..Len(manager'.active) : manager'.active[i] \in manager.marked]_vars

\* EndFrame of such a frame that removed a manifold and kept another
C17_Witness ==
    /\ last.op = "EndFrame"
    /\ last.args[1]
    /\ Cached # {}
    /\ last.args[3] \ Cached # {}
    /\ Len(manager.active) = Cardinality(Cached)

Frozen(h, o) ==
    {i \in 1..Len(o.params) : ~h[o.params[i]].rg \/ Size(h[o.params[i]].grad) = 0}

\* optimizer o over its parameter i alone
Alone(o, i) ==
    [o EXCEPT !.params = <<o.params[i]>>,
              !.m = IF o.m = <<>> THEN <<>> ELSE <<o.m[i]>>,
              !.v = IF o.v = <<>> THEN <<>> ELSE <<o.v[i]>>]

\* C20: Step of SGD, Adam and AdamW leaves the data (and the moment
\* estimates) of every parameter that does not require grad or has no
\* gradient allocated unchanged, raises no error, and updates every other
\* parameter of the list as a step over that parameter alone would.
C20_StepSkipsSilently ==
    [][last'.op = "Step" =>
          LET k == last'.args[1]
              o == optim[k]
          IN  /\ last'.outcome = "ok" /\ status' = "running"
              /\ \A i \in Frozen(heap, o) :
                    /\ heap'[o.params[i]] = heap[o.params[i]]
                    /\ o.kind # "SGD" => (optim'[k].m[i] = o.m[i] /\ optim'[k].v[i] = o.v[i])
              /\ \A i \in (1..Len(o.params)) \ Frozen(heap, o) :
                    /\ heap'[o.params[i]] = StepO(heap, Alone(o, i)).h[o.params[i]]
                    /\ o.kind # "SGD" =>
                          /\ optim'[k].m[i] = StepO(heap, Alone(o, i)).o.m[1]
                          /\ optim'[k].v[i] = StepO(heap, Alone(o, i)).o.v[1]]_vars

\* a second step of Adam or AdamW in which a frozen parameter with a
\* gradient and a parameter without gradient come first in the list and a
\* parameter after them has moved
C20_Witness ==
    /\ last.op = "Step"
    /\ optim[1].kind # "SGD"
    /\ optim[1].t = 2
    /\ \E i \in Frozen(heap, optim[1]), j \in Frozen(heap, optim[1]) :
          \E u \in (1..Len(optim[1].params)) \ Frozen(heap, optim[1]) :
              /\ i < u /\ j < u
              /\ ~heap[optim[1].params[i]].rg /\ Size(heap[optim[1].params[i]].grad) > 0
              /\ heap[optim[1].params[j]].rg /\ Size(heap[optim[1].params[j]].grad) = 0
              /\ heap[optim[1].params[u]].data # Const(1, 1, R(1))
              /\ optim[1].m[u] # Zeros(1, 1)
              /\ optim[1].m[i] = Zeros(1, 1)

\* heap h with the data of every parameter of o that a step does not skip
\* scaled by 1 - lr * weightDecay
Decayed(h, o) ==
    [a \in 1..Len(h) |->
        IF \E i \in (1..Len(o.params)) \ Frozen(h, o) : o.params[i] = a
        THEN [h[a] EXCEPT !.data = MScale(@, RSub(R(1), RMul(o.lr, o.weightDecay)))]
        ELSE h[a]]

\* an AdamW with weight decay 0 and the Adam beside it hold equal data,
\* moments and step counter
PairEqual ==
    optim[2].weightDecay = R(0) =>
        /\ \A a \in 1..3 : heap[Twin(a)] = heap[a]
        /\ optim[2].m = optim[1].m /\ optim[2].v = optim[1].v
        /\ optim[2].t = optim[1].t

\* C21 as stated: a step of AdamW is the weight decay (data scaled by
\* 1 - lr * wd) followed by the step of an Adam with the same
\* hyperparameters, moments and step counter; an AdamW with weight decay 0
\* and an Adam with equal hyperparameters, stepped together on equal
\* parameters and gradients, hold equal data, moments and step counter after
\* every sequence of calls.
C21_AdamWIsDecayThenAdam ==
    /\ []PairEqual
    /\ [][last'.op = "Step" =>
             \E r \in {StepO(Decayed(heap, optim[2]), [optim[2] EXCEPT !.kind = "Adam"])} :
                 /\ \A a \in 1..3 : heap'[Twin(a)] = r.h[Twin(a)]
                 /\ optim'[2] = [r.o EXCEPT !.kind = "AdamW"]]_vars

\* C21 for every weight decay: a step of AdamW is the weight decay (data
\* scaled by 1 - lr * wd when wd > 0, no decay when wd <= 0) followed by the
\* step of an Adam with the same hyperparameters, moments and step counter;
\* an AdamW with weight decay 0 and an Adam with equal hyperparameters,
\* stepped together, hold equal data, moments and step counter.
C21_AdamWDecayWhenPositive ==
    /\ []PairEqual
    /\ [][last'.op = "Step" =>
             \E r \in {StepO(Decayed(heap, [optim[2] EXCEPT !.weightDecay = RMax(@, R(0))]),
                             [optim[2] EXCEPT !.kind = "Adam"])} :
                 /\ \A a \in 1..3 : heap'[Twin(a)] = r.h[Twin(a)]
                 /\ optim'[2] = [r.o EXCEPT !.kind = "AdamW"]]_vars

\* a second step of the pair, with weight decay 0, after which the data and
\* the moments of a parameter have moved
C21_Witness ==
    /\ last.op = "Step"
    /\ optim[2].weightDecay = R(0)
    /\ optim[2].t = 2
    /\ \E i \in 1..3 :
          /\ optim[2].m[i] # Zeros(1, 1) /\ optim[2].m[i] # Zeros(2, 1)
          /\ heap[optim[2].params[i]].data \notin
                 {Mat(1, 1, <<R(1)>>), Mat(2, 1, <<R(2), R(3)>>), Mat(1, 1, <<R(4)>>)}

\* the members of a body (addresses 1..8 of its frame) that the members of
\* S list as children
MemberChildren(frame, S) ==
    {c \in 1..8 : \E n \in S : \E k \in 1..Len(frame[n].children) :
                      frame[n].children[k] = c}

\* the members reachable from the members of S through child lists
RECURSIVE MemberReach(_, _)
MemberReach(frame, S) ==
    IF MemberChildren(frame, S) \subseteq S THEN S
    ELSE MemberReach(frame, S \cup MemberChildren(frame, S))

\* C22: after any sequence of force applications and integrator steps no
\* tensor of a body (pos, vel, rotation, ang_vel, mass, inertia, the
\* accumulators), identified by its address, is reachable from itself
\* through child links.
C22_GraphAcyclic ==
    \A b \in 1..Len(bodies) : \A k \in 1..8 :
        k \notin MemberReach(BodyFrame(bodies[b]), MemberChildren(BodyFrame(bodies[b]), {k}))

\* the addresses a node holds: its child list and the captures of its closure
Held(t) ==
    {t.children[k] : k \in 1..Len(t.children)}
    \cup (IF t.fn.kind = "none" THEN {} ELSE {t.fn.a, t.fn.b} \ {0})

\* addresses of a body's frame that outlive a call: the members (1..8) and
\* the tensors the caller handed in (9, 10), which may lie in the arena;
\* from 11 on the frame holds locals and temporaries of the call
Outlives(a) == a \in 1..10

\* C23: when Engine::update returns, every address in a child list or
\* closure of a node reachable from a body's state tensors refers to a
\* tensor still alive at that address, never to a destroyed local or
\* temporary.
C23_UpstreamOutlives ==
    last.op = "update" =>
        \A k \in 1..Len(engine.bodies) :
            \A n \in MemberReach(BodyFrame(bodies[engine.bodies[k]]), 1..4) :
                \A a \in Held(BodyFrame(bodies[engine.bodies[k]])[n]) : Outlives(a)

\* C24: the arena of a body is empty when the constructor, CreateStatic,
\* ResetForces or Step(dt) returns, and when GetCorners returns it holds the
\* twenty tensors of that call and nothing kept by an earlier call
C24_ArenaLifecycle ==
    [][/\ last'.op \in {"Body", "CreateStatic"}
           => bodies'[Len(bodies')].garbage_collector = <<>>
       /\ last'.op \in {"ResetForces", "StepDt"}
           => bodies'[last'.args[1]].garbage_collector = <<>>
       /\ last'.op = "GetCorners"
           => bodies'[last'.args[1]].garbage_collector
                  = [k \in 1..20 |-> "GetCorners"]]_vars

\* a leaf of the given shape holding zeros, without requires-grad, children
\* or backward closure
ZeroLeaf(t, rows, cols) ==
    /\ t.data.rows = rows /\ t.data.cols = cols
    /\ Len(t.data.v) = rows * cols
    /\ \A k \in 1..Len(t.data.v) : t.data.v[k] = R(0)
    /\ ~t.rg
    /\ t.children = <<>>
    /\ t.fn.kind = "none"

\* C25: when Step(dt) has returned, the force accumulator of the body is a
\* (2,1) zero leaf and its torque accumulator a (1,1) zero leaf, neither
\* requiring grad nor having children
C25_AccumulatorsFresh ==
    last.op = "StepDt"
        => /\ ZeroLeaf(bodies[last.args[1]].force, 2, 1)
           /\ ZeroLeaf(bodies[last.args[1]].torque, 1, 1)

\* Step(dt) has integrated a force and a torque applied before it: the body
\* moves and turns, and its accumulators are zero again
C25_Witness ==
    /\ last.op = "StepDt"
    /\ \E k \in 1..2 : bodies[last.args[1]].vel.data.v[k] # R(0)
    /\ bodies[last.args[1]].ang_vel.data.v[1] # R(0)
    /\ ZeroLeaf(bodies[last.args[1]].force, 2, 1)
    /\ ZeroLeaf(bodies[last.args[1]].torque, 1, 1)

\* the bodies with the stored mass and inertia of every static body replaced
Reweighed(bs) ==
    [k \in 1..Len(bs) |->
        IF bs[k].is_static
        THEN [bs[k] EXCEPT !.mass = NewVectorT(<<R(5)>>, FALSE),
                           !.inertia = NewVectorT(<<R(7)>>, FALSE)]
        ELSE bs[k]]

\* C26: after compute_mass the stored masses do not depend on the mass and
\* inertia a static body stores, a point whose kNormal (kTangent) is zero
\* has normal_mass (tangent_mass) 0, every point of a manifold between two
\* static bodies has both 0, and no stored value is the result of a
\* division by zero
C26_ComputeMass ==
    last.op = "compute_mass"
        => LET m == manager.cache[last.args[1]]
           IN  /\ m.normal_mass = ComputeMassM(m, Reweighed(bodies)).normal_mass
               /\ m.tangent_mass = ComputeMassM(m, Reweighed(bodies)).tangent_mass
               /\ \A i \in 1..m.point_count :
                      /\ EffectiveK(m, bodies, i, m.normal) = R(0) => m.normal_mass[i] = R(0)
                      /\ EffectiveK(m, bodies, i, m.tangent) = R(0) => m.tangent_mass[i] = R(0)
                      /\ bodies[m.body_a].is_static /\ bodies[m.body_b].is_static
                             => m.normal_mass[i] = R(0) /\ m.tangent_mass[i] = R(0)
                      /\ m.normal_mass[i].d # 0 /\ m.tangent_mass[i].d # 0

\* compute_mass has run on a two-point manifold between two static bodies
\* while a manifold with a moving body has a positive normal mass
C26_Witness ==
    /\ last.op = "compute_mass"
    /\ LET m == manager.cache[last.args[1]]
       IN  /\ bodies[m.body_a].is_static /\ bodies[m.body_b].is_static
           /\ m.point_count = 2
           /\ m.normal_mass = <<R(0), R(0)>>
    /\ \E key \in DOMAIN manager.cache :
           /\ ~bodies[manager.cache[key].body_a].is_static
           /\ RLess(R(0), manager.cache[key].normal_mass[1])

\* the attached motors of body b with thrust > 0, in attachment order
Firing(b) == SelectSeq(bodies[b].motors, LAMBDA m : motors[m].thrust > 0)

RECURSIVE SumForce(_, _, _)
SumForce(terms, c, k) ==
    IF k = 0 THEN R(0) ELSE RAdd(SumForce(terms, c, k - 1), terms[k].force[c])

RECURSIVE SumTorque(_, _)
SumTorque(terms, k) ==
    IF k = 0 THEN R(0) ELSE RAdd(SumTorque(terms, k - 1), terms[k].torque)

\* C27: ApplyMotorForces leaves the accumulators as they are when no
\* attached motor has thrust > 0, and otherwise applies one force and one
\* torque for each attached motor with thrust > 0, in attachment order
C27_MotorForces ==
    [][last'.op = "ApplyMotorForces"
        => LET b == last'.args[1]
               terms == last'.args[2]
           IN  /\ Firing(b) = <<>>
                      => /\ bodies'[b].force = bodies[b].force
                         /\ bodies'[b].torque = bodies[b].torque
               /\ [k \in 1..Len(terms) |-> terms[k].motor] = Firing(b)
               /\ \A c \in 1..2 :
                      bodies'[b].force.data.v[c]
                          = RAdd(bodies[b].force.data.v[c], SumForce(terms, c, Len(terms)))
               /\ bodies'[b].torque.data.v[1]
                      = RAdd(bodies[b].torque.data.v[1], SumTorque(terms, Len(terms)))]_vars

\* ApplyMotorForces has run on a body with two motors thrusting, the
\* second attached one first in the list of terms
C27_Witness ==
    /\ last.op = "ApplyMotorForces"
    /\ Len(last.args[2]) = 2
    /\ last.args[2][1].motor = 2
    /\ last.args[2][2].motor = 1
    /\ bodies[last.args[1]].force.data.v[2] # R(0)
    /\ bodies[last.args[1]].torque.data.v[1] # R(0)

\* C28: from BeginFrame until EndFrame, was_touching of every manifold that
\* was cached when the frame began equals the touching flag it had then,
\* the end of the frame before; so it is still true for a pair that was
\* touching, after GetOrCreate has returned its manifold
C28_WasTouchingThroughFrame ==
    manager.inFrame
        => \A k \in Cached \cap DOMAIN manager.before :
               manager.cache[k].was_touching = manager.before[k]

\* C29: every entry of the active list refers to a manifold in the cache,
\* and no manifold is in the active list twice
C29_ActiveListSound ==
    /\ \A i \in 1..Len(manager.active) : manager.active[i] \in Cached
    /\ \A k \in Cached : Cardinality(Positions(manager.active, k)) <= 1

\* C30: Backward terminates on every graph: the work stack is emptied, the
\* closure loop reaches the end of topo, and the call returns
C30_BackwardTerminates ==
    <>(walk.pc = "done" /\ walk.stack = <<>> /\ walk.k = 0)

\* Backward has returned from a graph whose root lists its own address as a
\* child and in which a tensor is the child of another twice; topo is the
\* order the sort as a whole yields
C30_Witness ==
    /\ walk.pc = "done"
    /\ \E i \in 1..Len(heap[walk.root].children) : heap[walk.root].children[i] = walk.root
    /\ \E n \in 1..Len(heap) :
           /\ Len(heap[n].children) = 2
           /\ heap[n].children[1] = heap[n].children[2]
           /\ heap[n].children[1] # n
    /\ Len(walk.topo) = MaxWalkNodes
    /\ walk.topo = TopoSort(heap, walk.root)
====
